---------------------------- MODULE Spec2Model ----------------------------
(***************************************************************************)
(* A model of fantasyflow's data layer:                                    *)
(*   - DataService.fetchWithCache / executeRequest / clearCache            *)
(*     (request cache and in-flight request de-duplication),               *)
(*   - PlayerMatcher.matchPlayers (roster entry -> statistics record),     *)
(*   - DataService.getWeeklyStats (weekly aggregation),                    *)
(*   - MLBStatService.getDailyStatsMap / getMLBPlayersForDate (the         *)
(*     statistics of one date),                                            *)
(*   - ESPNApiService.makeRequest (the retry loop),                        *)
(*   - DataService.getExpectedStats (the weekly estimate),                 *)
(*   - the accumulation of getWeeklyStats in IEEE 754 double arithmetic    *)
(*     (SpecOrder),                                                        *)
(*   - a second getWeeklyStats call for the same week (SpecRepeat).        *)
(* Each part has its own specification (SpecCache, SpecMatch, SpecWeekly,  *)
(* SpecStats, SpecRequest, SpecEstimate, ...); the variables of the other  *)
(* parts stay at their initial value.                                      *)
(***************************************************************************)
EXTENDS Integers, Sequences, FiniteSets, TLC

VARIABLES
  \* ---- DataService cache layer ----
  now,              \* Date.now(), in milliseconds since the service was built
  ticks,            \* how many times the clock has been advanced
  cache,            \* Map<string, {data, timestamp}>
  pendingRequests,  \* Map<string, {promise, timestamp}>
  requestStats,     \* counters
  requests,         \* every executeRequest promise ever created, in order
  calls,            \* every fetchWithCache call ever made, in order
  lastOp,           \* the operation that produced the current state
  \* ---- PlayerMatcher.matchPlayers ----
  espnPlayers,      \* the roster entries handed to matchPlayers
  mlbPlayers,       \* the statistics-provider records handed to matchPlayers
  usedMLBPlayers,   \* Set<number>: ids of the records already assigned
  matches,          \* PlayerMatch[], one per roster entry processed so far
  \* ---- DataService.getWeeklyStats, for one team ----
  weekRosters,      \* upstream: the team's roster on each day of the week
  weekFeeds,        \* upstream: the statistics-provider records of each day
  dayIndex,         \* how many days of the week have been processed
  agg,              \* the running totals (agg and the ...Total locals)
  dayLog,           \* per processed day: which roster entries were kept as
                    \* starters, which had their match added to the totals,
                    \* the matches of the day, the records they were made
                    \* against, and whether the statistics could be fetched
  weeklyResult,     \* what getWeeklyStats returned
  \* ---- MLBStatService ----
  dayGames,         \* upstream: the games played on the date
  dayCache,         \* Map<string, Record<number, PlayerDailyStat>>
  playersCache,     \* Map<string, any[]>
  statCalls,        \* every getDailyStatsMap / getMLBPlayersForDate call, in order
  \* ---- ESPNApiService.makeRequest ----
  apiRequests,      \* every makeRequest call, in order
  \* ---- DataService.getExpectedStats, for one team ----
  currentWeek,      \* the week the dashboard shows
  weeks,            \* the weeks handed to getExpectedStats
  historicalWeeks,  \* the weeks getExpectedStats asks for
  weekAnswers,      \* what getWeeklyStats answered for the weeks asked so far
  historicalStats,  \* the team's statistics of the weeks that had them
  expectedStats,    \* what getExpectedStats returned
  \* ---- the accumulation of getWeeklyStats, in double arithmetic ----
  orderLines,       \* per day of the week, the statistics records whose
                    \* match is added to the totals
  orderTotals,      \* the totals computed so far, each with the order in
                    \* which the days were processed
  \* ---- a second getWeeklyStats call ----
  firstCall,        \* what the first call returned and its dayLog, once a
                    \* second call has been made
  \* ---- the application in the browser ----
  storage,          \* localStorage: is dev_mode set
  form,             \* InitialSetup: what the three fields hold
  page,             \* the loaded page: which effects have run, and the
                    \* state of the DataContext
  externalCalls,    \* the requests sent to the fantasy platform and to the
                    \* statistics provider since the page was loaded
  \* ---- DataProvider.loadWeek ----
  context,          \* the DataContext: currentWeek, weeklyStats,
                    \* weeklyEstimate, error
  weekLoads,        \* every loadWeek call, in order: its week and whether
                    \* its requests are pending, fulfilled or rejected
  \* ---- WeeklyEstimateService.getPlayerWeeklyEstimate ----
  dailyStats,       \* upstream: per day of the previous week, the
                    \* statistics-provider ids that have a line
  estimateCache,    \* Map<string, PlayerEstimate>, keyed by playerId-week
  playerRuns,       \* every getPlayerWeeklyEstimate call, in order
  \* ---- DataService.getCurrentWeek ----
  mlbSchedule,      \* upstream: the first and the last game day of the season
  today,            \* new Date(), in hours
  weekNow           \* what getCurrentWeek returned for today, once called

cacheVars == <<now, ticks, cache, pendingRequests, requestStats, requests, calls, lastOp>>

matchVars == <<espnPlayers, mlbPlayers, usedMLBPlayers, matches>>

weeklyVars == <<weekRosters, weekFeeds, dayIndex, agg, dayLog, weeklyResult>>

statsVars == <<dayGames, dayCache, playersCache, statCalls>>

requestVars == <<apiRequests>>

estimateVars ==
  <<currentWeek, weeks, historicalWeeks, weekAnswers, historicalStats, expectedStats>>

orderVars == <<orderLines, orderTotals>>

\* The variables of the parts modelled after getExpectedStats
repeatVars == <<firstCall>>

\* The variables of the parts that run in the browser
demoVars == <<storage, form, page, externalCalls>>

loadVars == <<context, weekLoads>>

playerVars == <<dailyStats, estimateCache, playerRuns>>

calendarVars == <<mlbSchedule, today, weekNow>>

appVars == <<demoVars, loadVars, playerVars, calendarVars>>

laterVars == <<orderVars, repeatVars, appVars>>

vars ==
  <<cacheVars, matchVars, weeklyVars, statsVars, requestVars, estimateVars, laterVars>>

\* The variables each part leaves alone
notCacheVars ==
  <<matchVars, weeklyVars, statsVars, requestVars, estimateVars, laterVars>>

notMatchVars ==
  <<cacheVars, weeklyVars, statsVars, requestVars, estimateVars, laterVars>>

notWeeklyVars ==
  <<cacheVars, matchVars, statsVars, requestVars, estimateVars, laterVars>>

notStatsVars ==
  <<cacheVars, matchVars, weeklyVars, requestVars, estimateVars, laterVars>>

notRequestVars ==
  <<cacheVars, matchVars, weeklyVars, statsVars, estimateVars, laterVars>>

notEstimateVars ==
  <<cacheVars, matchVars, weeklyVars, statsVars, requestVars, laterVars>>

\* The parts up to getExpectedStats
earlierVars ==
  <<cacheVars, matchVars, weeklyVars, statsVars, requestVars, estimateVars>>

notOrderVars == <<earlierVars, repeatVars, appVars>>

notDemoVars == <<earlierVars, orderVars, repeatVars, loadVars, playerVars, calendarVars>>

notLoadVars == <<earlierVars, orderVars, repeatVars, demoVars, playerVars, calendarVars>>

notPlayerVars == <<earlierVars, orderVars, repeatVars, demoVars, loadVars, calendarVars>>

notCalendarVars == <<earlierVars, orderVars, repeatVars, demoVars, loadVars, playerVars>>

earlierVarsButWeekly == <<cacheVars, matchVars, statsVars, requestVars, estimateVars>>

-----------------------------------------------------------------------------
(* Bounds of the model *)

MaxCalls == 3
MaxTicks == 2
MaxRoster == 2
MaxCands == 2
MaxDays == 2
MaxGames == 2
MaxStatCalls == 3
MaxRequests == 3
MaxWeek == 5

\* loadWeek calls in a behaviour
MaxLoads == 3

\* getPlayerWeeklyEstimate calls in a behaviour
MaxPlayerCalls == 2

\* Days of a week that getLast4WeeksData walks through
MaxLookDays == 2

\* Days from the first to the last game day of a season
MaxSeasonDays == 16

-----------------------------------------------------------------------------
(* DataService: request cache and de-duplication *)

Keys == {"k1", "k2"}

\* How a fetcher can settle
Outcomes == {"ok", "error"}

\* What a promise holds: nothing yet, the data its fetcher produced (each
\* invocation of a fetcher produces data of its own, named by the number of
\* the request), or the fetcher's error.
NoResult == [status |-> "none", value |-> 0]

ResultOf(r, outcome) == [status |-> outcome, value |-> IF outcome = "ok" THEN r ELSE 0]

\* config.cacheTimeout: 12 hours in milliseconds
cacheTimeout == 12 * 60 * 60 * 1000
enableCaching == TRUE
requestDeduplication == TRUE

\* The clock moves by one millisecond or by one millisecond less than the TTL,
\* so that ages TTL-1, TTL and TTL+1 all occur.
ClockSteps == {1, cacheTimeout - 1}

EmptyMap == [x \in {} |-> 0]

MapSet(m, k, v) == [x \in (DOMAIN m) \cup {k} |-> IF x = k THEN v ELSE m[x]]

MapDelete(m, k) == [x \in (DOMAIN m) \ {k} |-> m[x]]

NoOp == [op |-> "init", key |-> "-", kind |-> "-", age |-> -1, request |-> 0]

\* Mutant of CacheFresh: an entry whose age equals the TTL still counts as fresh.
CacheFreshInclusive(k) ==
  /\ enableCaching
  /\ k \in DOMAIN cache
  /\ now - cache[k].timestamp <= cacheTimeout

\* cached && Date.now() - cached.timestamp < cacheTimeout
CacheFresh(k) ==
  /\ enableCaching
  /\ k \in DOMAIN cache
  /\ now - cache[k].timestamp < cacheTimeout

\* requestDeduplication && pendingRequests.get(key)
HasPending(k) ==
  /\ requestDeduplication
  /\ k \in DOMAIN pendingRequests

CacheAge(k) == IF k \in DOMAIN cache THEN now - cache[k].timestamp ELSE -1

\* Which way fetchWithCache(k) goes in the current state: it returns the
\* cached data ("hit"), returns the pending promise ("joined"), or invokes the
\* fetcher ("started").
FetchKind(k) ==
  IF CacheFresh(k) THEN "hit"
  ELSE IF HasPending(k) THEN "joined"
  ELSE "started"

\* fetchWithCache, up to its first await: the cache check, the pending check,
\* and otherwise the synchronous start of executeRequest (which invokes the
\* fetcher) and the registration of the pending request.
fetchWithCache(k) ==
  /\ Len(calls) < MaxCalls
  /\ \/ /\ FetchKind(k) = "hit"
        /\ requestStats' = [requestStats EXCEPT !.totalRequests = @ + 1,
                                                !.cacheHits = @ + 1]
        /\ calls' = Append(calls, [key |-> k, kind |-> "hit", request |-> 0,
                                   settled |-> TRUE, result |-> cache[k].data])
        /\ lastOp' = [op |-> "fetch", key |-> k, kind |-> "hit",
                      age |-> CacheAge(k), request |-> 0]
        /\ UNCHANGED <<requests, pendingRequests>>
     \/ /\ FetchKind(k) = "joined"
        /\ requestStats' = [requestStats EXCEPT !.totalRequests = @ + 1]
        /\ calls' = Append(calls, [key |-> k, kind |-> "joined",
                                   request |-> pendingRequests[k].promise,
                                   settled |-> FALSE, result |-> NoResult])
        /\ lastOp' = [op |-> "fetch", key |-> k, kind |-> "joined",
                      age |-> CacheAge(k), request |-> pendingRequests[k].promise]
        /\ UNCHANGED <<requests, pendingRequests>>
     \/ /\ FetchKind(k) = "started"
        /\ requestStats' = [requestStats EXCEPT !.totalRequests = @ + 1,
                                                !.cacheMisses = @ + 1,
                                                !.activeRequests = @ + 1]
        /\ requests' = Append(requests, [key |-> k, state |-> "pending",
                                         data |-> NoResult, completed |-> FALSE,
                                         clearedSince |-> FALSE])
        /\ pendingRequests' =
             IF requestDeduplication
               THEN MapSet(pendingRequests, k,
                           [promise |-> Len(requests) + 1, timestamp |-> now])
               ELSE pendingRequests
        /\ calls' = Append(calls, [key |-> k, kind |-> "started",
                                   request |-> Len(requests) + 1,
                                   settled |-> FALSE, result |-> NoResult])
        /\ lastOp' = [op |-> "fetch", key |-> k, kind |-> "started",
                      age |-> CacheAge(k), request |-> Len(requests) + 1]
  /\ UNCHANGED <<now, ticks, cache>>
  /\ UNCHANGED notCacheVars

\* executeRequest: the fetcher settles and the request promise settles with it,
\* with the fetcher's data or with its error.
executeRequest(r, outcome) ==
  /\ r \in 1..Len(requests)
  /\ requests[r].state = "pending"
  /\ requests' = [requests EXCEPT ![r].state =
                                    IF outcome = "error" THEN "rejected" ELSE "fulfilled",
                                  ![r].data = ResultOf(r, outcome)]
  /\ lastOp' = [op |-> "settle", key |-> requests[r].key, kind |-> outcome,
                age |-> -1, request |-> r]
  /\ UNCHANGED <<now, ticks, cache, pendingRequests, requestStats, calls>>
  /\ UNCHANGED notCacheVars

\* Mutant of CacheAfterRequest: the outcome is cached whether or not the fetcher failed.
CacheAfterRequestAnyOutcome(r) ==
  IF enableCaching
    THEN MapSet(cache, requests[r].key, [data |-> requests[r].data, timestamp |-> now])
    ELSE cache

\* The data of the cache after the starting call's try block
CacheAfterRequest(r) ==
  IF requests[r].state = "fulfilled" /\ enableCaching
    THEN MapSet(cache, requests[r].key, [data |-> requests[r].data, timestamp |-> now])
    ELSE cache

\* Mutant of PendingAfterRequest: the marker is removed in the try block, so
\* only when the request succeeded.
PendingAfterRequestOnSuccess(r) ==
  IF requests[r].state = "fulfilled"
    THEN MapDelete(pendingRequests, requests[r].key)
    ELSE pendingRequests

\* The pending registry after the starting call's finally block
PendingAfterRequest(r) == MapDelete(pendingRequests, requests[r].key)

\* The call that started request r
StarterOf(r) == CHOOSE c \in 1..Len(calls) : calls[c].kind = "started" /\ calls[c].request = r

\* fetchWithCache resumed after `await requestPromise` in the call that started
\* the request: try (cache the data), catch (count the error), finally.
completeRequest(r) ==
  /\ r \in 1..Len(requests)
  /\ requests[r].state # "pending"
  /\ ~requests[r].completed
  /\ cache' = CacheAfterRequest(r)
  /\ requestStats' =
       [requestStats EXCEPT !.errors = IF requests[r].state = "rejected" THEN @ + 1 ELSE @,
                            !.activeRequests = @ - 1]
  /\ pendingRequests' = PendingAfterRequest(r)
  /\ requests' = [requests EXCEPT ![r].completed = TRUE]
  /\ calls' = [calls EXCEPT ![StarterOf(r)].settled = TRUE,
                            ![StarterOf(r)].result = requests[r].data]
  /\ lastOp' = [op |-> "complete", key |-> requests[r].key, kind |-> requests[r].state,
                age |-> -1, request |-> r]
  /\ UNCHANGED <<now, ticks>>
  /\ UNCHANGED notCacheVars

\* A call that returned pending.promise settles with that promise. The
\* starting call awaited the promise first, so its continuation has run by then.
deliverJoined(c) ==
  /\ c \in 1..Len(calls)
  /\ calls[c].kind = "joined"
  /\ ~calls[c].settled
  /\ requests[calls[c].request].state # "pending"
  /\ requests[calls[c].request].completed
  /\ calls' = [calls EXCEPT ![c].settled = TRUE,
                            ![c].result = requests[calls[c].request].data]
  /\ lastOp' = [op |-> "deliver", key |-> calls[c].key,
                kind |-> requests[calls[c].request].state,
                age |-> -1, request |-> calls[c].request]
  /\ UNCHANGED <<now, ticks, cache, pendingRequests, requestStats, requests>>
  /\ UNCHANGED notCacheVars

\* Mutant of PendingAfterClear: clearCache forgets the in-flight registry.
PendingKeptOnClear == pendingRequests

\* What clearCache leaves of the pending registry
PendingAfterClear == EmptyMap

clearCache ==
  /\ cache' = EmptyMap
  /\ pendingRequests' = PendingAfterClear
  /\ requests' = [r \in 1..Len(requests) |->
                    IF requests[r].completed THEN requests[r]
                    ELSE [requests[r] EXCEPT !.clearedSince = TRUE]]
  /\ lastOp' = [op |-> "clear", key |-> "-", kind |-> "-", age |-> -1, request |-> 0]
  /\ UNCHANGED <<now, ticks, requestStats, calls>>
  /\ UNCHANGED notCacheVars

\* Time passes between two events.
Tick(d) ==
  /\ ticks < MaxTicks
  /\ now' = now + d
  /\ ticks' = ticks + 1
  /\ UNCHANGED <<cache, pendingRequests, requestStats, requests, calls, lastOp>>
  /\ UNCHANGED notCacheVars

InitCacheVars ==
  /\ now = 0
  /\ ticks = 0
  /\ cache = EmptyMap
  /\ pendingRequests = EmptyMap
  /\ requestStats = [totalRequests |-> 0, cacheHits |-> 0, cacheMisses |-> 0,
                     errors |-> 0, activeRequests |-> 0]
  /\ requests = <<>>
  /\ calls = <<>>
  /\ lastOp = NoOp

\* No matchPlayers call has been made.
InitMatchVars ==
  /\ espnPlayers = <<>>
  /\ mlbPlayers = <<>>
  /\ usedMLBPlayers = {}
  /\ matches = <<>>

\* let agg = {runs: 0, ...}; let abTotal = 0, hTotal = 0, eraER = 0, eraIP = 0,
\* whipNum = 0, whipIP = 0; let totalMatches = 0. Innings are in tenths.
ZeroAgg ==
  [runs |-> 0, homeRuns |-> 0, rbis |-> 0, stolenBases |-> 0, hits |-> 0,
   strikeouts |-> 0, wins |-> 0, saves |-> 0, qualityStarts |-> 0,
   abTotal |-> 0, hTotal |-> 0, eraER |-> 0, eraIP |-> 0, whipNum |-> 0, whipIP |-> 0,
   totalMatches |-> 0]

\* Nothing returned yet
NoWeeklyResult == [note |-> "none", teamStats |-> EmptyMap]

\* No getWeeklyStats call has been made.
InitWeeklyVars ==
  /\ weekRosters = <<>>
  /\ weekFeeds = <<>>
  /\ dayIndex = 0
  /\ agg = ZeroAgg
  /\ dayLog = <<>>
  /\ weeklyResult = NoWeeklyResult

\* No call of the statistics service has been made.
InitStatsVars ==
  /\ dayGames = <<>>
  /\ dayCache = EmptyMap
  /\ playersCache = EmptyMap
  /\ statCalls = <<>>

\* No makeRequest call has been made.
InitRequestVars == apiRequests = <<>>

\* A number of the estimate is a fraction num / den with den > 0.
Number(n) == [num |-> n, den |-> 1]

\* No estimate has been returned.
NoEstimate == [f \in {} |-> Number(0)]

\* No estimate has been asked for.
InitEstimateVars ==
  /\ currentWeek = 0
  /\ weeks = <<>>
  /\ historicalWeeks = <<>>
  /\ weekAnswers = <<>>
  /\ historicalStats = <<>>
  /\ expectedStats = NoEstimate

\* No week has been accumulated.
InitOrderVars ==
  /\ orderLines = <<>>
  /\ orderTotals = <<>>

\* getWeeklyStats has not been called a second time.
NoCall == [result |-> NoWeeklyResult, log |-> <<>>]

InitRepeatVars == firstCall = NoCall

\* A page on which no module has been evaluated yet.
FreshPage ==
  [snapshot |-> "idle", provider |-> "unmounted", leagueInfo |-> "none",
   week |-> 0, initialWeekLoaded |-> FALSE, weekMaps |-> FALSE]

InitDemoVars ==
  /\ storage = [dev_mode |-> FALSE]
  /\ form = <<"", "", "">>
  /\ page = FreshPage
  /\ externalCalls = <<>>

\* The context before initializeData has answered.
InitLoadVars ==
  /\ context = [currentWeek |-> 0, weeklyStats |-> 0, weeklyEstimate |-> 0,
                error |-> FALSE]
  /\ weekLoads = <<>>

\* No player estimate has been asked for.
InitPlayerVars ==
  /\ dailyStats = <<>>
  /\ estimateCache = [x \in {} |-> 0]
  /\ playerRuns = <<>>

\* The week maps have not been built.
InitCalendarVars ==
  /\ mlbSchedule = <<>>
  /\ today = 0
  /\ weekNow = 0

InitAppVars ==
  /\ InitDemoVars
  /\ InitLoadVars
  /\ InitPlayerVars
  /\ InitCalendarVars

InitLaterVars ==
  /\ InitOrderVars
  /\ InitRepeatVars
  /\ InitAppVars

InitEarlierVars ==
  /\ InitCacheVars
  /\ InitMatchVars
  /\ InitWeeklyVars
  /\ InitStatsVars
  /\ InitRequestVars
  /\ InitEstimateVars

InitCache ==
  /\ InitLaterVars
  /\ InitCacheVars
  /\ InitMatchVars
  /\ InitWeeklyVars
  /\ InitStatsVars
  /\ InitRequestVars
  /\ InitEstimateVars

NextCache ==
  \/ \E k \in Keys : fetchWithCache(k)
  \/ \E r \in 1..Len(requests) : \E o \in Outcomes : executeRequest(r, o)
  \/ \E r \in 1..Len(requests) : completeRequest(r)
  \/ \E c \in 1..Len(calls) : deliverJoined(c)
  \/ clearCache
  \/ \E d \in ClockSteps : Tick(d)

SpecCache == InitCache /\ [][NextCache]_vars

-----------------------------------------------------------------------------
(* PlayerMatcher: normalisation *)

\* A name is a sequence of characters. "e_acute" stands for the precomposed
\* letter e with acute accent (U+00E9), "combining_acute" for U+0301.
Letters == {"a", "e", "h", "j", "l", "o", "r", "s"}

\* String.prototype.toLowerCase, on the characters used here
ToLowerChar(c) ==
  CASE c = "A" -> "a"
    [] c = "J" -> "j"
    [] c = "R" -> "r"
    [] OTHER -> c

\* String.prototype.normalize("NFD"), on one character
NFD(c) == IF c = "e_acute" THEN <<"e", "combining_acute">> ELSE <<c>>

RECURSIVE FlatMapNFD(_)
FlatMapNFD(str) ==
  IF str = <<>> THEN <<>> ELSE NFD(Head(str)) \o FlatMapNFD(Tail(str))

\* /[\u0300-\u036f]/
IsCombiningMark(c) == c = "combining_acute"

\* /\s/
IsSpace(c) == c = " "

\* /[^a-z\s]/ is what gets removed
IsKept(c) == c \in Letters \/ IsSpace(c)

\* .replace(/\s+/g, " ")
RECURSIVE CollapseSpaces(_)
CollapseSpaces(str) ==
  IF str = <<>> THEN <<>>
  ELSE IF IsSpace(Head(str))
    THEN IF Tail(str) # <<>> /\ IsSpace(Head(Tail(str)))
           THEN CollapseSpaces(Tail(str))
           ELSE <<" ">> \o CollapseSpaces(Tail(str))
    ELSE <<Head(str)>> \o CollapseSpaces(Tail(str))

\* .trim()
RECURSIVE TrimLeft(_)
TrimLeft(str) ==
  IF str # <<>> /\ IsSpace(Head(str)) THEN TrimLeft(Tail(str)) ELSE str

RECURSIVE TrimRight(_)
TrimRight(str) ==
  IF str # <<>> /\ IsSpace(str[Len(str)])
    THEN TrimRight(SubSeq(str, 1, Len(str) - 1))
    ELSE str

Trim(str) == TrimRight(TrimLeft(str))

normalizeName(name) ==
  LET lower    == [i \in 1..Len(name) |-> ToLowerChar(name[i])]
      nfd      == FlatMapNFD(lower)
      noAccent == SelectSeq(nfd, LAMBDA c : ~IsCombiningMark(c))
      letters  == SelectSeq(noAccent, IsKept)
  IN  Trim(CollapseSpaces(letters))

\* The player names of the model: "Jos\u00e9", "Jose", "Josh", "Al  Roe" (two
\* spaces) and "A.l Roe".
Jose_acute == <<"J", "o", "s", "e_acute">>

Jose == <<"J", "o", "s", "e">>

Josh == <<"J", "o", "s", "h">>

AlRoe == <<"A", "l", " ", " ", "R", "o", "e">>

A_lRoe == <<"A", ".", "l", " ", "R", "o", "e">>

Names == {Jose_acute, Jose, Josh, AlRoe, A_lRoe}

\* normalizeName of each of them, computed once
normalizedNames == [name \in Names |-> normalizeName(name)]

NormalizedName(name) ==
  IF name \in Names THEN normalizedNames[name] ELSE normalizeName(name)

\* The standardized codes and the alternative abbreviations
teamAbbreviationMap ==
  [t \in {"LAA", "HOU", "OAK", "TOR", "ATL", "MIL", "STL", "CHC", "ARI", "LAD",
          "SF", "CLE", "SEA", "MIA", "NYM", "WSH", "BAL", "SD", "PHI", "PIT",
          "TEX", "TB", "BOS", "CIN", "COL", "KC", "DET", "MIN", "CWS", "NYY",
          "SFG", "WSN", "TBR", "KCR", "CHW", "SDP"} |->
     CASE t = "SFG" -> "SF"
       [] t = "WSN" -> "WSH"
       [] t = "TBR" -> "TB"
       [] t = "KCR" -> "KC"
       [] t = "CHW" -> "CWS"
       [] t = "SDP" -> "SD"
       [] OTHER -> t]

\* team.toUpperCase().trim(), on the abbreviations used here
UpperTrim(team) ==
  CASE team = "sfg" -> "SFG"
    [] team = " lad" -> "LAD"
    [] OTHER -> team

normalizeTeam(team) ==
  LET normalized == UpperTrim(team)
  IN  IF normalized \in DOMAIN teamAbbreviationMap
        THEN teamAbbreviationMap[normalized]
        ELSE normalized

\* A team name is a sequence of words. The entries of teamNameMap, in order.
teamNameMap ==
  << [name |-> <<"Angels">>, abbrev |-> "LAA"], [name |-> <<"Astros">>, abbrev |-> "HOU"],
     [name |-> <<"Athletics">>, abbrev |-> "OAK"], [name |-> <<"Blue", "Jays">>, abbrev |-> "TOR"],
     [name |-> <<"Braves">>, abbrev |-> "ATL"], [name |-> <<"Brewers">>, abbrev |-> "MIL"],
     [name |-> <<"Cardinals">>, abbrev |-> "STL"], [name |-> <<"Cubs">>, abbrev |-> "CHC"],
     [name |-> <<"Diamondbacks">>, abbrev |-> "ARI"], [name |-> <<"Dodgers">>, abbrev |-> "LAD"],
     [name |-> <<"Giants">>, abbrev |-> "SF"], [name |-> <<"Guardians">>, abbrev |-> "CLE"],
     [name |-> <<"Mariners">>, abbrev |-> "SEA"], [name |-> <<"Marlins">>, abbrev |-> "MIA"],
     [name |-> <<"Mets">>, abbrev |-> "NYM"], [name |-> <<"Nationals">>, abbrev |-> "WSH"],
     [name |-> <<"Orioles">>, abbrev |-> "BAL"], [name |-> <<"Padres">>, abbrev |-> "SD"],
     [name |-> <<"Phillies">>, abbrev |-> "PHI"], [name |-> <<"Pirates">>, abbrev |-> "PIT"],
     [name |-> <<"Rangers">>, abbrev |-> "TEX"], [name |-> <<"Rays">>, abbrev |-> "TB"],
     [name |-> <<"Red", "Sox">>, abbrev |-> "BOS"], [name |-> <<"Reds">>, abbrev |-> "CIN"],
     [name |-> <<"Rockies">>, abbrev |-> "COL"], [name |-> <<"Royals">>, abbrev |-> "KC"],
     [name |-> <<"Tigers">>, abbrev |-> "DET"], [name |-> <<"Twins">>, abbrev |-> "MIN"],
     [name |-> <<"White", "Sox">>, abbrev |-> "CWS"], [name |-> <<"Yankees">>, abbrev |-> "NYY"] >>

\* mlbTeam.name.includes(name), on names made of whole words
Includes(words, part) ==
  \E i \in 1..(Len(words) - Len(part) + 1) : SubSeq(words, i, i + Len(part) - 1) = part

\* mlbTeam.name.substring(0, 3).toUpperCase(), on the team names used here
FirstThreeUpper(words) ==
  CASE words = <<>> -> ""
    [] words = <<"Unknown">> -> "UNK"
    [] OTHER -> "???"

extractTeamAbbrev(mlbTeam) ==
  IF mlbTeam.abbreviation # ""
    THEN normalizeTeam(mlbTeam.abbreviation)
    ELSE LET hits == {i \in 1..Len(teamNameMap) : Includes(mlbTeam.name, teamNameMap[i].name)}
         IN  IF hits # {}
               THEN teamNameMap[CHOOSE i \in hits : \A j \in hits : i <= j].abbrev
               ELSE FirstThreeUpper(mlbTeam.name)

\* The teams of the statistics-provider records of the model: with an
\* abbreviation, with a name only, and the defaults 'Unknown' / 'UNK' of
\* getMLBPlayersForDate.
Giants == [name |-> <<"San", "Francisco", "Giants">>, abbreviation |-> "SF"]

Dodgers == [name |-> <<"Los", "Angeles", "Dodgers">>, abbreviation |-> "LAD"]

DodgersByName == [name |-> <<"Los", "Angeles", "Dodgers">>, abbreviation |-> ""]

TeamUnknown == [name |-> <<"Unknown">>, abbreviation |-> "UNK"]

Teams == {Giants, Dodgers, DodgersByName, TeamUnknown}

\* extractTeamAbbrev of each of them, computed once
extractedTeamAbbrevs == [team \in Teams |-> extractTeamAbbrev(team)]

ExtractedTeamAbbrev(team) ==
  IF team \in Teams THEN extractedTeamAbbrevs[team] ELSE extractTeamAbbrev(team)

\* ESPN position -> MLB position codes
positionMap ==
  [p \in {"C", "1B", "2B", "3B", "SS", "OF", "LF", "CF", "RF", "DH", "SP", "RP", "P"} |->
     CASE p = "OF" -> {"LF", "CF", "RF", "OF"}
       [] p = "LF" -> {"LF", "OF"}
       [] p = "CF" -> {"CF", "OF"}
       [] p = "RF" -> {"RF", "OF"}
       [] p = "SP" -> {"P", "SP"}
       [] p = "RP" -> {"P", "RP"}
       [] p = "P"  -> {"P", "SP", "RP"}
       [] OTHER -> {p}]

\* An absent position is the empty string (espnPlayer.position || '').
isPositionMatch(espnPosition, mlbPosition) ==
  IF espnPosition = "" \/ mlbPosition = ""
    THEN TRUE
    ELSE LET espnPositions == IF espnPosition \in DOMAIN positionMap
                                THEN positionMap[espnPosition]
                                ELSE {espnPosition}
         IN  mlbPosition \in espnPositions

-----------------------------------------------------------------------------
(* PlayerMatcher.matchPlayers *)

\* Confidences are carried in thousandths (0.9 is 900), similarities and Fuse
\* scores in hundredths (0.4 is 40). For the similarity levels used here, every
\* comparison matchPlayers makes (with the best match so far, with 0.5, and of
\* the exact stage's result with 0.8) and the comparisons of a returned
\* confidence with 0.5 and 0.7 come out on the IEEE-754 doubles as they do on
\* these exact decimals. The doubles 0.7*1+0.1, 0.7*1+0.2 and 0.7*1+0.2+0.1
\* are one unit in the last place below 0.8, 0.9 and 1.

\* Fuse option threshold: 0.4
FuseThreshold == 40

\* fuzzyResults.slice(0, 5)
FuseTop == 5

NoMatch(espnPlayer) ==
  [espnPlayer |-> espnPlayer, mlbPlayer |-> 0, confidence |-> 0,
   matchReason |-> [base |-> "No match found", pct |-> 0, team |-> FALSE],
   warnings |-> <<>>]

TeamWarning(espnTeam, mlbTeam) ==
  [kind |-> "Team mismatch", espn |-> espnTeam, mlb |-> mlbTeam]

PositionWarning(espnPlayer, mlbPlayer) ==
  [kind |-> "Position mismatch", espn |-> espnPlayer.position, mlb |-> mlbPlayer.position]

\* Mutant of ExactConfidence: a known team mismatch costs 0.1 instead of 0.2.
ExactConfidenceSmallPenalty(teamMatch, bothKnown) ==
  900 + (IF teamMatch THEN 100 ELSE IF bothKnown THEN -100 ELSE 0)

\* Strategy 1: 0.9, +0.1 on a team match, -0.2 when both teams are known and differ
ExactConfidence(teamMatch, bothKnown) ==
  900 + (IF teamMatch THEN 100 ELSE IF bothKnown THEN -200 ELSE 0)

\* Mutant of FuzzyConfidence: a team match adds 0.3 instead of 0.2.
FuzzyConfidenceBigBonus(nameSimilarity, teamMatch, bothKnown, positionMatch) ==
  nameSimilarity * 7
    + (IF teamMatch THEN 300 ELSE IF bothKnown THEN -100 ELSE 0)
    + (IF positionMatch THEN 100 ELSE 0)

\* Strategy 2: nameSimilarity * 0.7, +0.2 / -0.1 for the team, +0.1 for the position
FuzzyConfidence(nameSimilarity, teamMatch, bothKnown, positionMatch) ==
  nameSimilarity * 7
    + (IF teamMatch THEN 200 ELSE IF bothKnown THEN -100 ELSE 0)
    + (IF positionMatch THEN 100 ELSE 0)

\* The match Strategy 1 builds for candidate i, whose normalized name equals the entry's
ExactMatch(espnPlayer, candidates, i) ==
  LET mlbPlayer     == candidates[i]
      espnTeam      == normalizeTeam(espnPlayer.teamAbbrev)
      mlbTeam       == ExtractedTeamAbbrev(mlbPlayer.team)
      teamMatch     == espnTeam = mlbTeam
      bothKnown     == espnTeam # "" /\ mlbTeam # ""
      positionMatch == isPositionMatch(espnPlayer.position, mlbPlayer.position)
  IN  [espnPlayer |-> espnPlayer, mlbPlayer |-> i,
       confidence |-> ExactConfidence(teamMatch, bothKnown),
       matchReason |-> [base |-> "Exact name match", pct |-> 0, team |-> teamMatch],
       warnings |-> (IF ~teamMatch /\ bothKnown
                       THEN <<TeamWarning(espnTeam, mlbTeam)>> ELSE <<>>)
                    \o (IF ~positionMatch
                          THEN <<PositionWarning(espnPlayer, mlbPlayer)>> ELSE <<>>)]

\* Mutant of IsUsed: the used set is never consulted.
IsUsedNever(used, mlbPlayer) == FALSE

\* usedMLBPlayers.has(mlbPlayer.id)
IsUsed(used, mlbPlayer) == mlbPlayer.id \in used

\* Strategy 1: the loop over mlbPlayers from index i on
RECURSIVE ExactStage(_, _, _, _, _)
ExactStage(espnPlayer, candidates, used, i, bestMatch) ==
  IF i > Len(candidates) THEN bestMatch
  ELSE IF IsUsed(used, candidates[i])
    THEN ExactStage(espnPlayer, candidates, used, i + 1, bestMatch)
  ELSE IF NormalizedName(espnPlayer.fullName) = NormalizedName(candidates[i].fullName)
    THEN LET m == ExactMatch(espnPlayer, candidates, i)
         IN  ExactStage(espnPlayer, candidates, used, i + 1,
                        IF m.confidence > bestMatch.confidence THEN m ELSE bestMatch)
  ELSE ExactStage(espnPlayer, candidates, used, i + 1, bestMatch)

\* fuse.search(normalizedESPNName): the candidates whose Fuse score is within
\* the threshold, best (lowest) score first, the earlier candidate first on a tie.
\* fuseScore[i] is the score Fuse gives candidate i for this query.
RECURSIVE SortByScore(_, _)
SortByScore(idxs, fuseScore) ==
  IF idxs = {} THEN <<>>
  ELSE LET first == CHOOSE i \in idxs :
                      \A j \in idxs : fuseScore[i] < fuseScore[j]
                                        \/ (fuseScore[i] = fuseScore[j] /\ i <= j)
       IN  <<first>> \o SortByScore(idxs \ {first}, fuseScore)

FuseSearch(candidates, fuseScore) ==
  SortByScore({i \in 1..Len(candidates) : fuseScore[i] <= FuseThreshold}, fuseScore)

Slice(seq, n) == SubSeq(seq, 1, IF Len(seq) < n THEN Len(seq) ELSE n)

Max(a, b) == IF a > b THEN a ELSE b

\* The match Strategy 2 builds for candidate i
FuzzyMatch(espnPlayer, candidates, i, fuseScore, stringSimilarity) ==
  LET mlbPlayer      == candidates[i]
      espnTeam       == normalizeTeam(espnPlayer.teamAbbrev)
      mlbTeam        == ExtractedTeamAbbrev(mlbPlayer.team)
      teamMatch      == espnTeam = mlbTeam
      bothKnown      == espnTeam # "" /\ mlbTeam # ""
      positionMatch  == isPositionMatch(espnPlayer.position, mlbPlayer.position)
      nameScore      == 100 - fuseScore[i]
      nameSimilarity == Max(nameScore, stringSimilarity[i])
  IN  [espnPlayer |-> espnPlayer, mlbPlayer |-> i,
       confidence |-> FuzzyConfidence(nameSimilarity, teamMatch, bothKnown, positionMatch),
       matchReason |-> [base |-> "Fuzzy name match", pct |-> nameSimilarity, team |-> teamMatch],
       warnings |-> (IF ~teamMatch /\ bothKnown
                       THEN <<TeamWarning(espnTeam, mlbTeam)>> ELSE <<>>)
                    \o (IF ~positionMatch
                          THEN <<PositionWarning(espnPlayer, mlbPlayer)>> ELSE <<>>)]

\* Mutant of FuzzyAccepts: the fixed floor 0.5 is not applied.
FuzzyAcceptsNoFloor(confidence, bestMatch) == confidence > bestMatch.confidence

\* confidence > bestMatch.confidence && confidence > 0.5
FuzzyAccepts(confidence, bestMatch) ==
  confidence > bestMatch.confidence /\ confidence > 500

\* Strategy 2: the loop over the top results from position j on
RECURSIVE FuzzyStage(_, _, _, _, _, _, _, _)
FuzzyStage(espnPlayer, candidates, used, results, j, bestMatch, fuseScore, stringSimilarity) ==
  IF j > Len(results) THEN bestMatch
  ELSE IF IsUsed(used, candidates[results[j]])
    THEN FuzzyStage(espnPlayer, candidates, used, results, j + 1, bestMatch,
                    fuseScore, stringSimilarity)
  ELSE LET m == FuzzyMatch(espnPlayer, candidates, results[j], fuseScore, stringSimilarity)
       IN  FuzzyStage(espnPlayer, candidates, used, results, j + 1,
                      IF FuzzyAccepts(m.confidence, bestMatch) THEN m ELSE bestMatch,
                      fuseScore, stringSimilarity)

\* One iteration of the loop over espnPlayers: the best match for one entry
BestMatchFor(espnPlayer, candidates, used, fuseScore, stringSimilarity) ==
  LET exact == ExactStage(espnPlayer, candidates, used, 1, NoMatch(espnPlayer))
  IN  IF exact.confidence < 800
        THEN FuzzyStage(espnPlayer, candidates, used,
                        Slice(FuseSearch(candidates, fuseScore), FuseTop), 1, exact,
                        fuseScore, stringSimilarity)
        ELSE exact

\* usedMLBPlayers after the iteration
UsedAfter(used, candidates, bestMatch) ==
  IF bestMatch.mlbPlayer # 0
    THEN used \cup {candidates[bestMatch.mlbPlayer].id}
    ELSE used

\* What the two string libraries may answer for one query against one
\* candidate: a Fuse score in [0,1] (100 here: not among the results; about 0
\* for a fullName that contains the query, also when the normalized names
\* differ), and compareTwoStrings in [0,1], which is 1 exactly for two
\* identical strings.
FuseScores == {0, 40, 100}

StringSimilarities == {0, 80}

\* The similarity is taken at both values only beside the Fuse score 0.4:
\* Math.max(1 - score, similarity) is 1 beside score 0 whatever the
\* similarity, and a candidate outside the results is not looked at.
AnswersFor(sameName) ==
  IF sameName
    THEN { [fuseScore |-> f, stringSimilarity |-> 100] : f \in FuseScores }
    ELSE { a \in [fuseScore : FuseScores, stringSimilarity : StringSimilarities] :
             a.fuseScore # 40 => a.stringSimilarity = 0 }

\* The answers for all candidates of the list
LibraryAnswers(espnPlayer, candidates) ==
  LET perCandidate ==
        { c \in [1..Len(candidates) ->
                   AnswersFor(TRUE) \cup AnswersFor(FALSE)] :
            \A i \in 1..Len(candidates) :
              c[i] \in AnswersFor(NormalizedName(espnPlayer.fullName)
                                   = NormalizedName(candidates[i].fullName)) }
  IN  { [fuseScore |-> [i \in 1..Len(candidates) |-> c[i].fuseScore],
         stringSimilarity |-> [i \in 1..Len(candidates) |-> c[i].stringSimilarity]] :
          c \in perCandidate }

\* Roster entries as the callers build them (playerId, fullName, teamAbbrev,
\* position, lineupSlotId); an absent teamAbbrev or position is "".
ESPNPlayer(playerId, fullName, teamAbbrev, position) ==
  [playerId |-> playerId, fullName |-> fullName, teamAbbrev |-> teamAbbrev,
   position |-> position, lineupSlotId |-> 0]

ESPNPool ==
  { ESPNPlayer(1, Jose_acute, "sfg", "OF"),
    ESPNPlayer(2, Jose_acute, "", ""),
    ESPNPlayer(3, AlRoe, " lad", "SP") }

\* Statistics-provider records (id, fullName, team {name, abbreviation},
\* position code); an absent abbreviation or position is "". Two records of
\* the pool carry id 1, as the box-score path produces them.
MLBPlayer(id, fullName, team, position) ==
  [id |-> id, fullName |-> fullName, team |-> team, position |-> position]

MLBPool ==
  { MLBPlayer(1, Jose, Giants, "CF"),
    MLBPlayer(2, Jose_acute, DodgersByName, "P"),
    MLBPlayer(3, Josh, Giants, "CF"),
    MLBPlayer(4, A_lRoe, Dodgers, "P"),
    MLBPlayer(1, Jose, TeamUnknown, "") }

SeqsUpTo(S, lo, hi) == UNION { [1..n -> S] : n \in lo..hi }

\* matchPlayers is called with a roster and a candidate list.
InitMatch ==
  /\ InitLaterVars
  /\ InitCacheVars
  /\ InitWeeklyVars
  /\ InitStatsVars
  /\ InitRequestVars
  /\ InitEstimateVars
  /\ espnPlayers \in SeqsUpTo(ESPNPool, 1, MaxRoster)
  /\ mlbPlayers \in SeqsUpTo(MLBPool, 0, MaxCands)
  /\ usedMLBPlayers = {}
  /\ matches = <<>>

\* One pass of the loop over espnPlayers: both strategies for the next roster
\* entry, the used mark and matches.push.
matchPlayers ==
  /\ Len(matches) < Len(espnPlayers)
  /\ LET espnPlayer == espnPlayers[Len(matches) + 1]
     IN  \E bestMatch \in { BestMatchFor(espnPlayer, mlbPlayers, usedMLBPlayers,
                                           a.fuseScore, a.stringSimilarity) :
                              a \in LibraryAnswers(espnPlayer, mlbPlayers) } :
           /\ usedMLBPlayers' = UsedAfter(usedMLBPlayers, mlbPlayers, bestMatch)
           /\ matches' = Append(matches, bestMatch)
  /\ UNCHANGED <<espnPlayers, mlbPlayers>>
  /\ UNCHANGED notMatchVars

NextMatch == matchPlayers

SpecMatch == InitMatch /\ [][NextMatch]_vars

-----------------------------------------------------------------------------
(* DataService.getWeeklyStats: the producer, for one team of the league *)

\* League uses 22 starter slots: hitters (0-12) and pitchers (13-21).
\* Bench = 23, IL = 24-25, NA = 26.
STARTER_SLOT_IDS ==
  {0, 1, 2, 3, 4, 5, 6, 7, 8, 9, 10, 11, 12, 13, 14, 15, 16, 17, 18, 19, 20, 21}

TeamId == 1

\* A roster entry as ESPNApiService.getAllTeamRosters builds it; status is the
\* player's injuryStatus, or ACTIVE when there is none.
RosterEntry(name, position, team, playerId, lineupSlotId, status) ==
  [name |-> name, position |-> position, team |-> team, playerId |-> playerId,
   lineupSlotId |-> lineupSlotId, status |-> status]

HitterSlot0 == RosterEntry(Jose_acute, "OF", "SF", 1, 0, "ACTIVE")

HitterSlot16 == RosterEntry(Jose_acute, "OF", "SF", 1, 16, "ACTIVE")

PitcherSlot13 == RosterEntry(AlRoe, "SP", "LAD", 3, 13, "ACTIVE")

PitcherSlot23 == RosterEntry(AlRoe, "SP", "LAD", 3, 23, "ACTIVE")

PitcherSlot14Out == RosterEntry(AlRoe, "SP", "LAD", 3, 14, "OUT")

\* What the roster provider has for the team on one day
DayRosters ==
  { <<>>,
    <<HitterSlot0>>,
    <<HitterSlot0, PitcherSlot13>>,
    <<HitterSlot16, PitcherSlot13>>,
    <<HitterSlot0, PitcherSlot23>>,
    <<PitcherSlot14Out, HitterSlot0>> }

\* stats.batting / stats.pitching of a statistics-provider record; present is
\* FALSE when the record has no such group. inningsPitched is in tenths.
Batting(atBats, hits, runs, homeRuns, rbi, stolenBases) ==
  [present |-> TRUE, atBats |-> atBats, hits |-> hits, runs |-> runs,
   homeRuns |-> homeRuns, rbi |-> rbi, stolenBases |-> stolenBases]

NoBatting ==
  [present |-> FALSE, atBats |-> 0, hits |-> 0, runs |-> 0,
   homeRuns |-> 0, rbi |-> 0, stolenBases |-> 0]

Pitching(inningsPitched, earnedRuns, hits, baseOnBalls, strikeOuts, wins, saves) ==
  [present |-> TRUE, inningsPitched |-> inningsPitched, earnedRuns |-> earnedRuns,
   hits |-> hits, baseOnBalls |-> baseOnBalls, strikeOuts |-> strikeOuts,
   wins |-> wins, saves |-> saves]

NoPitching ==
  [present |-> FALSE, inningsPitched |-> 0, earnedRuns |-> 0,
   hits |-> 0, baseOnBalls |-> 0, strikeOuts |-> 0, wins |-> 0, saves |-> 0]

\* A record of getMLBPlayersForDate's bulk path: id, fullName, team and
\* stats, and no position.
MLBStatPlayer(id, fullName, team, batting, pitching) ==
  [id |-> id, fullName |-> fullName, team |-> team, position |-> "",
   stats |-> [batting |-> batting, pitching |-> pitching]]

JoseHitting ==
  MLBStatPlayer(1, Jose, Giants,
                Batting(4, 2, 1, 1, 2, 0), NoPitching)

RoePitching ==
  MLBStatPlayer(4, A_lRoe, Dodgers,
                NoBatting, Pitching(60, 2, 4, 1, 7, 1, 0))

RoeFiveInnings ==
  MLBStatPlayer(4, A_lRoe, Dodgers,
                NoBatting, Pitching(50, 2, 5, 2, 4, 0, 0))

RoeFourInnings ==
  MLBStatPlayer(4, A_lRoe, Dodgers,
                NoBatting, Pitching(40, 1, 3, 1, 3, 0, 0))

\* A relief appearance without an out: an earned run, a hit and a walk in
\* 0.0 innings
RoeNoOutPitching ==
  MLBStatPlayer(4, A_lRoe, Dodgers,
                NoBatting, Pitching(0, 1, 1, 1, 0, 0, 0))

\* What the statistics provider has for one day
DayFeeds ==
  { <<>>, <<JoseHitting, RoePitching>>, <<RoePitching>>,
    <<RoeFiveInnings>>, <<RoeFourInnings>>, <<RoeNoOutPitching>> }

\* roster.filter(p => p.lineupSlotId !== 16 && p.lineupSlotId !== 17 && p.status === 'ACTIVE')
IsStarter(p) ==
  p.lineupSlotId # 16 /\ p.lineupSlotId # 17 /\ p.status = "ACTIVE"

\* The positions in the roster of the entries the filter keeps, in order
StarterIndices(roster) ==
  SelectSeq([i \in 1..Len(roster) |-> i], LAMBDA i : IsStarter(roster[i]))

\* starters.map(p => ({playerId, fullName, teamAbbrev, teamId, position,
\* lineupSlotId})). A roster entry has name (never empty) and no fullName; it
\* has no teamAbbrev and its team is a string, so p.team?.abbreviation is
\* undefined and the matcher sees no team.
ToESPNPlayer(p) ==
  [playerId |-> p.playerId, fullName |-> p.name, teamAbbrev |-> "",
   position |-> p.position, lineupSlotId |-> p.lineupSlotId]

\* Every PlayerMatch[] matchPlayers can return for these arguments, over the
\* answers of the string libraries: the loop over the entries from n on.
RECURSIVE MatchPlayersFrom(_, _, _, _, _)
MatchPlayersFrom(espn, candidates, n, used, done) ==
  IF n > Len(espn) THEN {done}
  ELSE UNION { MatchPlayersFrom(espn, candidates, n + 1,
                                UsedAfter(used, candidates, bestMatch),
                                Append(done, bestMatch)) :
               bestMatch \in { BestMatchFor(espn[n], candidates, used,
                                            a.fuseScore, a.stringSimilarity) :
                               a \in LibraryAnswers(espn[n], candidates) } }

MatchPlayersResults(espn, candidates) ==
  MatchPlayersFrom(espn, candidates, 1, {}, <<>>)

\* match.mlbPlayer && match.confidence >= 0.5
UsesMatch(match) == match.mlbPlayer # 0 /\ match.confidence >= 500

AddBatting(a, b) ==
  [a EXCEPT !.runs = @ + b.runs, !.homeRuns = @ + b.homeRuns, !.rbis = @ + b.rbi,
            !.stolenBases = @ + b.stolenBases, !.hits = @ + b.hits,
            !.abTotal = @ + b.atBats, !.hTotal = @ + b.hits]

\* ip >= 6 && er <= 3, with ip in tenths
IsQualityStart(ip, er) == ip >= 60 /\ er <= 3

\* Mutant of Rate: the quotient whatever the denominator
RateUnguarded(num, den) == [num |-> num, den |-> den]

\* Mutant of AddPitching: the earned runs and the innings of a match replace
\* the running sums (= for +=).
AddPitchingLastOnly(a, p) ==
  [a EXCEPT !.strikeouts = @ + p.strikeOuts, !.wins = @ + p.wins, !.saves = @ + p.saves,
            !.eraIP = p.inningsPitched, !.eraER = p.earnedRuns,
            !.whipNum = @ + p.hits + p.baseOnBalls, !.whipIP = @ + p.inningsPitched,
            !.qualityStarts = @ + (IF IsQualityStart(p.inningsPitched, p.earnedRuns)
                                     THEN 1 ELSE 0)]

AddPitching(a, p) ==
  [a EXCEPT !.strikeouts = @ + p.strikeOuts, !.wins = @ + p.wins, !.saves = @ + p.saves,
            !.eraIP = @ + p.inningsPitched, !.eraER = @ + p.earnedRuns,
            !.whipNum = @ + p.hits + p.baseOnBalls, !.whipIP = @ + p.inningsPitched,
            !.qualityStarts = @ + (IF IsQualityStart(p.inningsPitched, p.earnedRuns)
                                     THEN 1 ELSE 0)]

AddMatch(a, match, feed) ==
  IF UsesMatch(match)
    THEN LET stats == feed[match.mlbPlayer].stats
             a1    == IF stats.batting.present THEN AddBatting(a, stats.batting) ELSE a
             a2    == IF stats.pitching.present THEN AddPitching(a1, stats.pitching) ELSE a1
         IN  [a2 EXCEPT !.totalMatches = @ + 1]
    ELSE a

\* for (const match of matches) ..., from match k on
RECURSIVE Aggregate(_, _, _, _)
Aggregate(a, ms, feed, k) ==
  IF k > Len(ms) THEN a
  ELSE Aggregate(AddMatch(a, ms[k], feed), ms, feed, k + 1)

\* A rate is a fraction; 0 when the denominator is 0.
Rate(num, den) ==
  IF den # 0 THEN [num |-> num, den |-> den] ELSE [num |-> 0, den |-> 1]

\* Calculate final averages; innings are in tenths, hence the factor 10.
FinalStats(a) ==
  [runs |-> a.runs, homeRuns |-> a.homeRuns, rbis |-> a.rbis,
   stolenBases |-> a.stolenBases, hits |-> a.hits, strikeouts |-> a.strikeouts,
   wins |-> a.wins, saves |-> a.saves, qualityStarts |-> a.qualityStarts,
   battingAverage |-> Rate(a.hTotal, a.abTotal),
   era |-> Rate(a.eraER * 9 * 10, a.eraIP),
   whip |-> Rate(a.whipNum * 10, a.whipIP)]

\* getWeeklyStats is called for a week of MaxDays days; the rosters and the
\* statistics of its days are what the upstream services hold.
InitWeekly ==
  /\ InitLaterVars
  /\ InitCacheVars
  /\ InitMatchVars
  /\ InitStatsVars
  /\ InitRequestVars
  /\ InitEstimateVars
  /\ weekRosters \in [1..MaxDays -> DayRosters]
  /\ weekFeeds \in [1..MaxDays -> DayFeeds]
  /\ dayIndex = 0
  /\ agg = ZeroAgg
  /\ dayLog = <<>>
  /\ weeklyResult = NoWeeklyResult

\* if (!weekMeta) return { week, teamStats: {}, note: 'No week metadata found' }
getWeeklyStatsNoMeta ==
  /\ weeklyResult = NoWeeklyResult
  /\ dayIndex = 0
  /\ weeklyResult' = [note |-> "No week metadata found", teamStats |-> EmptyMap]
  /\ UNCHANGED <<weekRosters, weekFeeds, dayIndex, agg, dayLog>>
  /\ UNCHANGED notWeeklyVars

\* The entry of dayLog for a day: the roster entries kept, the matches made
\* against the records of feed, and whether the statistics were fetched.
DayLogEntry(kept, ms, feed, fetched) ==
  [starters |-> {kept[k] : k \in 1..Len(kept)},
   used     |-> {kept[k] : k \in {j \in 1..Len(ms) : UsesMatch(ms[j])}},
   matches  |-> ms,
   feed     |-> feed,
   fetched  |-> fetched]

\* One pass of the loop over the days, given what getMLBPlayersForDate
\* returns for the day: roster, starters, statistics records, matching,
\* accumulation.
DayPass(feed, fetched) ==
  LET roster == weekRosters[dayIndex + 1]
      kept   == StarterIndices(roster)
      espn   == [k \in 1..Len(kept) |-> ToESPNPlayer(roster[kept[k]])]
  IN  /\ IF Len(kept) > 0 /\ Len(feed) > 0
            THEN \E ms \in MatchPlayersResults(espn, feed) :
                   /\ agg' = Aggregate(agg, ms, feed, 1)
                   /\ dayLog' = Append(dayLog, DayLogEntry(kept, ms, feed, fetched))
            ELSE /\ agg' = agg
                 /\ dayLog' = Append(dayLog, DayLogEntry(kept, <<>>, feed, fetched))
      /\ dayIndex' = dayIndex + 1
      /\ UNCHANGED <<weekRosters, weekFeeds, weeklyResult>>
      /\ UNCHANGED notWeeklyVars

\* A day whose roster and statistics are both fetched.
getWeeklyStatsDay ==
  /\ weeklyResult = NoWeeklyResult
  /\ dayIndex < MaxDays
  /\ DayPass(weekFeeds[dayIndex + 1], TRUE)

\* A day whose statistics cannot be fetched: the bulk feed and the box-score
\* fallback of getMLBPlayersForDate both fail, and it returns [] (the
\* statistics are asked for only when the day has starters).
getWeeklyStatsDayStatsFail ==
  /\ weeklyResult = NoWeeklyResult
  /\ dayIndex < MaxDays
  /\ Len(StarterIndices(weekRosters[dayIndex + 1])) > 0
  /\ DayPass(<<>>, FALSE)

\* After the last day: the rates, teamStats[team.id] = agg, and the return.
getWeeklyStatsReturn ==
  /\ weeklyResult = NoWeeklyResult
  /\ dayIndex = MaxDays
  /\ weeklyResult' = [note |-> "Computed using fuzzy matching",
                      teamStats |-> MapSet(EmptyMap, TeamId, FinalStats(agg))]
  /\ UNCHANGED <<weekRosters, weekFeeds, dayIndex, agg, dayLog>>
  /\ UNCHANGED notWeeklyVars

\* catch (error): getTeamRosterForDay of the next day throws (fetchWithCache
\* rethrows the error of getAllTeamRosters), and the catch block of the
\* producer returns the error result for the whole week.
getWeeklyStatsError ==
  /\ weeklyResult = NoWeeklyResult
  /\ dayIndex < MaxDays
  /\ weeklyResult' = [note |-> "Error loading weekly statistics", teamStats |-> EmptyMap]
  /\ UNCHANGED <<weekRosters, weekFeeds, dayIndex, agg, dayLog>>
  /\ UNCHANGED notWeeklyVars

NextWeekly ==
  \/ getWeeklyStatsNoMeta
  \/ getWeeklyStatsDay
  \/ getWeeklyStatsDayStatsFail
  \/ getWeeklyStatsReturn
  \/ getWeeklyStatsError

SpecWeekly == InitWeekly /\ [][NextWeekly]_vars

-----------------------------------------------------------------------------
(* MLBStatService: the statistics of one date *)

\* The date every call of the model asks for
Dates == {"2025-07-07"}

\* A player's line in one game (teamObj.players[key] of the schedule feed, a
\* split of the bulk feed, teamData.players[key] of a box score)
Appearance(id, fullName, team, batting, pitching) ==
  [id |-> id, fullName |-> fullName, team |-> team,
   batting |-> batting, pitching |-> pitching]

JoseGameOne == Appearance(1, Jose, Giants, Batting(3, 1, 0, 0, 0, 0), NoPitching)

JoseGameTwo == Appearance(1, Jose, Giants, Batting(2, 1, 1, 0, 1, 0), NoPitching)

JoshGame == Appearance(3, Josh, Giants, Batting(4, 0, 0, 0, 0, 1), NoPitching)

RoeStart == Appearance(4, A_lRoe, Dodgers, NoBatting, Pitching(60, 2, 4, 1, 7, 1, 0))

RoeRelief == Appearance(4, A_lRoe, Dodgers, NoBatting, Pitching(10, 1, 1, 0, 1, 0, 1))

\* A game of the date: the players of the home and of the away side
Game(gamePk, home, away) == [gamePk |-> gamePk, home |-> home, away |-> away]

GameOne == Game(1, <<JoseGameOne>>, <<RoeStart>>)

GameTwo == Game(2, <<JoseGameTwo>>, <<RoeRelief>>)

\* A relief appearance without an out
RoeNoOutRelief == Appearance(4, A_lRoe, Dodgers, NoBatting, Pitching(0, 1, 1, 1, 0, 0, 0))

GameThree == Game(3, <<JoshGame>>, <<RoeNoOutRelief>>)

GamePool == {GameOne, GameTwo, GameThree}

\* The schedules a date can have: up to MaxGames different games
Schedules ==
  { s \in SeqsUpTo(GamePool, 0, MaxGames) :
      \A i, j \in 1..Len(s) : i # j => s[i].gamePk # s[j].gamePk }

\* hitting: { AB:0,R:0,H:0,HR:0,RBI:0,SB:0,AVG:0 },
\* pitching: { IP:0,K:0,W:0,SV:0,ERA:0,WHIP:0,QS:0 }
ZeroDailyStat(id) ==
  [playerId |-> id,
   hitting  |-> [AB |-> 0, R |-> 0, H |-> 0, HR |-> 0, RBI |-> 0, SB |-> 0, AVG |-> 0],
   pitching |-> [IP |-> 0, K |-> 0, W |-> 0, SV |-> 0, ERA |-> 0, WHIP |-> 0, QS |-> 0]]

\* The batting and pitching accumulations of one appearance onto tgt. Until the
\* map is finalized, ERA holds the earned runs and WHIP the hits and walks.
Accumulate(tgt, p) ==
  [tgt EXCEPT
     !.hitting  = [@ EXCEPT !.R = @ + p.batting.runs, !.HR = @ + p.batting.homeRuns,
                            !.RBI = @ + p.batting.rbi, !.SB = @ + p.batting.stolenBases,
                            !.H = @ + p.batting.hits, !.AB = @ + p.batting.atBats],
     !.pitching = [@ EXCEPT !.K = @ + p.pitching.strikeOuts, !.W = @ + p.pitching.wins,
                            !.SV = @ + p.pitching.saves,
                            !.IP = @ + p.pitching.inningsPitched,
                            !.ERA = @ + p.pitching.earnedRuns,
                            !.WHIP = @ + p.pitching.hits + p.pitching.baseOnBalls,
                            !.QS = @ + (IF IsQualityStart(p.pitching.inningsPitched,
                                                          p.pitching.earnedRuns)
                                          THEN 1 ELSE 0)]]

\* Mutant of ExtractPlayer: every appearance starts from a fresh record, so the
\* last game of the date replaces the earlier ones.
ExtractPlayerFresh(map, p) ==
  IF p.id = 0 THEN map
  ELSE MapSet(map, p.id, Accumulate(ZeroDailyStat(p.id), p))

\* One pass of the loop over Object.keys(teamObj.players)
ExtractPlayer(map, p) ==
  IF p.id = 0 THEN map
  ELSE MapSet(map, p.id,
              Accumulate(IF p.id \in DOMAIN map THEN map[p.id] ELSE ZeroDailyStat(p.id), p))

\* extract(teamObj), from player n on
RECURSIVE Extract(_, _, _)
Extract(map, players, n) ==
  IF n > Len(players) THEN map
  ELSE Extract(ExtractPlayer(map, players[n]), players, n + 1)

\* for (const g of d.games): extract(g.teams.home); extract(g.teams.away)
RECURSIVE ExtractGames(_, _, _)
ExtractGames(map, games, n) ==
  IF n > Len(games) THEN map
  ELSE ExtractGames(Extract(Extract(map, games[n].home, 1), games[n].away, 1),
                    games, n + 1)

\* +(num / den).toFixed(digits) in units of 10^-digits, for a num already
\* multiplied by 10^digits: the nearest integer, the larger one on a tie.
ToFixed(num, den) == (2 * num + den) \div (2 * den)

\* Finalize AVG/ERA/WHIP: AVG in thousandths, ERA and WHIP in hundredths
\* (innings are in tenths).
Finalize(stat) ==
  [stat EXCEPT
     !.hitting.AVG   = IF stat.hitting.AB # 0
                         THEN ToFixed(stat.hitting.H * 1000, stat.hitting.AB) ELSE 0,
     !.pitching.ERA  = IF stat.pitching.IP # 0
                         THEN ToFixed(stat.pitching.ERA * 9 * 10 * 100, stat.pitching.IP) ELSE 0,
     !.pitching.WHIP = IF stat.pitching.IP # 0
                         THEN ToFixed(stat.pitching.WHIP * 10 * 100, stat.pitching.IP) ELSE 0]

\* The map getDailyStatsMap builds from the schedule feed of the date
DailyStatsMapOf(games) ==
  LET map == ExtractGames(EmptyMap, games, 1)
  IN  [id \in DOMAIN map |-> Finalize(map[id])]

\* Every appearance of the date, in the order of the games, home side first
RECURSIVE AppearancesFrom(_, _)
AppearancesFrom(games, n) ==
  IF n > Len(games) THEN <<>>
  ELSE games[n].home \o games[n].away \o AppearancesFrom(games, n + 1)

\* data.stats[0].splits of the bulk feed of a stat group: one split per
\* appearance that has a line of the group
Splits(games, group) ==
  SelectSeq(AppearancesFrom(games, 1),
            LAMBDA p : IF group = "hitting" THEN p.batting.present ELSE p.pitching.present)

\* One pass of the loop of ingest: the record is created at the player's
\* first split, and the split's stat replaces the record's line of the group.
IngestSplit(playersMap, s, group) ==
  IF s.id = 0 THEN playersMap
  ELSE LET old == IF s.id \in DOMAIN playersMap THEN playersMap[s.id]
                  ELSE MLBStatPlayer(s.id, s.fullName, s.team, NoBatting, NoPitching)
       IN  MapSet(playersMap, s.id,
                  IF group = "hitting"
                    THEN [old EXCEPT !.stats.batting = s.batting]
                    ELSE [old EXCEPT !.stats.pitching = s.pitching])

\* ingest(data, type), from split n on
RECURSIVE Ingest(_, _, _, _)
Ingest(playersMap, splits, group, n) ==
  IF n > Len(splits) THEN playersMap
  ELSE Ingest(IngestSplit(playersMap, splits[n], group), splits, group, n + 1)

\* Object.values of a record keyed by player id: in ascending order of the ids
RECURSIVE ObjectValues(_)
ObjectValues(map) ==
  IF DOMAIN map = {} THEN <<>>
  ELSE LET least == CHOOSE id \in DOMAIN map : \A other \in DOMAIN map : id <= other
       IN  <<map[least]>> \o ObjectValues(MapDelete(map, least))

\* The array the bulk path of getMLBPlayersForDate builds
BulkPlayers(games) ==
  ObjectValues(Ingest(Ingest(EmptyMap, Splits(games, "hitting"), "hitting", 1),
                      Splits(games, "pitching"), "pitching", 1))

\* players.push({id, fullName, team, stats: {batting, pitching}}) for every
\* player of a box score
BoxscoreRecords(players) ==
  LET kept == SelectSeq(players, LAMBDA p : p.id # 0)
  IN  [k \in 1..Len(kept) |->
         MLBStatPlayer(kept[k].id, kept[k].fullName, kept[k].team,
                       kept[k].batting, kept[k].pitching)]

\* The array getPlayersViaBoxscores builds when the box scores settle in the
\* order given (a sequence of positions of the schedule; the games whose box
\* score could not be fetched are not in it), from position n of the order on
RECURSIVE BoxscorePlayers(_, _, _)
BoxscorePlayers(games, order, n) ==
  IF n > Len(order) THEN <<>>
  ELSE BoxscoreRecords(games[order[n]].home) \o BoxscoreRecords(games[order[n]].away)
         \o BoxscorePlayers(games, order, n + 1)

\* The orders in which the box scores of some of the games can settle
SettleOrders(games) ==
  { o \in SeqsUpTo(1..Len(games), 0, Len(games)) :
      \A i, j \in 1..Len(o) : i # j => o[i] # o[j] }

\* A call of getDailyStatsMap or getMLBPlayersForDate: where it stands, whether
\* it fetched from upstream, which calls of the same function for the same
\* date were still running when it was made, and what it returned.
StatCall(fn, date, pc, fetched, overlaps, path, result) ==
  [fn |-> fn, date |-> date, pc |-> pc, fetched |-> fetched, overlaps |-> overlaps,
   path |-> path, result |-> result]

\* The calls of fn for date that have not returned
Running(fn, date) ==
  { c \in 1..Len(statCalls) :
      statCalls[c].fn = fn /\ statCalls[c].date = date /\ statCalls[c].pc # "done" }

InitStats ==
  /\ InitLaterVars
  /\ InitCacheVars
  /\ InitMatchVars
  /\ InitWeeklyVars
  /\ InitRequestVars
  /\ InitEstimateVars
  /\ dayGames \in Schedules
  /\ dayCache = EmptyMap
  /\ playersCache = EmptyMap
  /\ statCalls = <<>>

\* getDailyStatsMap, up to `await fetch(url)`
getDailyStatsMap(date) ==
  /\ Len(statCalls) < MaxStatCalls
  /\ statCalls' = Append(statCalls,
       IF date \in DOMAIN dayCache
         THEN StatCall("getDailyStatsMap", date, "done", FALSE,
                       Running("getDailyStatsMap", date), "cache", dayCache[date])
         ELSE StatCall("getDailyStatsMap", date, "fetching", TRUE,
                       Running("getDailyStatsMap", date), "-", EmptyMap))
  /\ UNCHANGED <<dayGames, dayCache, playersCache>>
  /\ UNCHANGED notStatsVars

\* getDailyStatsMap after the fetch settled: the games are extracted and the
\* rates finalized, or the catch block caches and returns the empty map.
getDailyStatsMapSettle(c, ok) ==
  /\ statCalls[c].fn = "getDailyStatsMap"
  /\ statCalls[c].pc = "fetching"
  /\ LET map == IF ok THEN DailyStatsMapOf(dayGames) ELSE EmptyMap
     IN  /\ dayCache' = MapSet(dayCache, statCalls[c].date, map)
         /\ statCalls' = [statCalls EXCEPT ![c].pc = "done",
                                           ![c].path = IF ok THEN "schedule" ELSE "failed",
                                           ![c].result = map]
  /\ UNCHANGED <<dayGames, playersCache>>
  /\ UNCHANGED notStatsVars

\* getMLBPlayersForDate, up to `await Promise.all([fetch(hitting), fetch(pitching)])`
getMLBPlayersForDate(date) ==
  /\ Len(statCalls) < MaxStatCalls
  /\ statCalls' = Append(statCalls,
       IF date \in DOMAIN playersCache
         THEN StatCall("getMLBPlayersForDate", date, "done", FALSE,
                       Running("getMLBPlayersForDate", date), "cache", playersCache[date])
         ELSE StatCall("getMLBPlayersForDate", date, "fetching", TRUE,
                       Running("getMLBPlayersForDate", date), "-", <<>>))
  /\ UNCHANGED <<dayGames, dayCache, playersCache>>
  /\ UNCHANGED notStatsVars

\* getMLBPlayersForDate after the two bulk fetches settled: both are OK and
\* the splits are ingested, or one is not (or the fetch threw) and the call
\* goes on to getPlayersViaBoxscores.
getMLBPlayersForDateBulk(c, ok) ==
  /\ statCalls[c].fn = "getMLBPlayersForDate"
  /\ statCalls[c].pc = "fetching"
  /\ IF ok
       THEN /\ playersCache' = MapSet(playersCache, statCalls[c].date, BulkPlayers(dayGames))
            /\ statCalls' = [statCalls EXCEPT ![c].pc = "done", ![c].path = "bulk",
                                              ![c].result = BulkPlayers(dayGames)]
       ELSE /\ playersCache' = playersCache
            /\ statCalls' = [statCalls EXCEPT ![c].pc = "fallback"]
  /\ UNCHANGED <<dayGames, dayCache>>
  /\ UNCHANGED notStatsVars

\* getPlayersViaBoxscores settles and getMLBPlayersForDate caches and returns
\* its array: empty when the schedule could not be fetched, and otherwise the
\* players of the box scores that could be fetched, in the order these settled.
getPlayersViaBoxscores(c, scheduleOk, order) ==
  /\ statCalls[c].fn = "getMLBPlayersForDate"
  /\ statCalls[c].pc = "fallback"
  /\ LET players == IF scheduleOk THEN BoxscorePlayers(dayGames, order, 1) ELSE <<>>
     IN  /\ playersCache' = MapSet(playersCache, statCalls[c].date, players)
         /\ statCalls' = [statCalls EXCEPT
                            ![c].pc = "done",
                            ![c].path = IF scheduleOk /\ Len(order) = Len(dayGames)
                                          THEN "boxscores" ELSE "failed",
                            ![c].result = players]
  /\ UNCHANGED <<dayGames, dayCache>>
  /\ UNCHANGED notStatsVars

NextStats ==
  \/ \E date \in Dates : getDailyStatsMap(date)
  \/ \E c \in 1..Len(statCalls) : \E ok \in BOOLEAN : getDailyStatsMapSettle(c, ok)
  \/ \E date \in Dates : getMLBPlayersForDate(date)
  \/ \E c \in 1..Len(statCalls) : \E ok \in BOOLEAN : getMLBPlayersForDateBulk(c, ok)
  \/ \E c \in 1..Len(statCalls) : \E scheduleOk \in BOOLEAN :
       \E order \in SettleOrders(dayGames) : getPlayersViaBoxscores(c, scheduleOk, order)

SpecStats == InitStats /\ [][NextStats]_vars

\* The two aggregators that compute rates: a run is a week of getWeeklyStats
\* or a date of the statistics service.
InitRates == InitWeekly \/ InitStats

NextRates ==
  \/ weekRosters # <<>> /\ NextWeekly
  \/ weekRosters = <<>> /\ NextStats

SpecRates == InitRates /\ [][NextRates]_vars

-----------------------------------------------------------------------------
(* ESPNApiService.makeRequest *)

\* How one `await fetch(requestUrl, { headers })` can end: with a response
\* (OK with a JSON body, OK with another body, not OK), or by throwing an
\* AbortError or another error.
Responses == {"ok json", "ok non-JSON", "not ok"}

FetchErrors == {"AbortError", "TypeError"}

\* Mutant of IsAbortError: every error of fetch counts as a timeout.
IsAbortErrorAlways(err) == TRUE

\* err.name === 'AbortError'
IsAbortError(err) == err = "AbortError"

\* A call of makeRequest: its locals attempt and response, the way each of
\* its fetch calls ended, and how the call itself ended ("pending" while it
\* runs, "data" when it returned the parsed body, else the error it threw).
ApiRequest(attempt, response, fetches, result) ==
  [attempt |-> attempt, response |-> response, fetches |-> fetches, result |-> result]

\* let response = null; let attempt = 0;
NewApiRequest == ApiRequest(0, "null", <<>>, "pending")

\* The call that is running, if any: calls are made one after the other
\* here, so it is the last one.
RunningRequest ==
  IF Len(apiRequests) > 0 /\ apiRequests[Len(apiRequests)].result = "pending"
    THEN Len(apiRequests) ELSE 0

InitRequest ==
  /\ InitLaterVars
  /\ InitCacheVars
  /\ InitMatchVars
  /\ InitWeeklyVars
  /\ InitStatsVars
  /\ InitEstimateVars
  /\ apiRequests = <<>>

\* makeRequest is called: the URL and the headers are built, the locals are
\* initialised.
makeRequest ==
  /\ RunningRequest = 0
  /\ Len(apiRequests) < MaxRequests
  /\ apiRequests' = Append(apiRequests, NewApiRequest)
  /\ UNCHANGED notRequestVars

\* One pass of `while (attempt < 2 && !response)` in which fetch resolves
fetchResponds(r) ==
  /\ RunningRequest # 0
  /\ LET q == apiRequests[RunningRequest]
     IN  /\ q.attempt < 2 /\ q.response = "null"
         /\ apiRequests' = [apiRequests EXCEPT ![RunningRequest] =
              ApiRequest(q.attempt, r, Append(q.fetches, r), "pending")]
  /\ UNCHANGED notRequestVars

\* One pass of the loop in which fetch throws: attempt += 1; an AbortError
\* is retried unless attempt >= 2, when Error('TIMEOUT') is thrown; any other
\* error is rethrown.
fetchThrows(err) ==
  /\ RunningRequest # 0
  /\ LET q == apiRequests[RunningRequest]
         attempt == q.attempt + 1
     IN  /\ q.attempt < 2 /\ q.response = "null"
         /\ apiRequests' = [apiRequests EXCEPT ![RunningRequest] =
              ApiRequest(attempt, "null", Append(q.fetches, err),
                         IF IsAbortError(err)
                           THEN IF attempt >= 2 THEN "TIMEOUT" ELSE "pending"
                           ELSE err)]
  /\ UNCHANGED notRequestVars

\* After the loop: a response that is not OK throws 'ESPN API error', a body
\* that JSON.parse rejects throws 'ESPN API returned non-JSON body', and
\* otherwise the parsed body is returned.
readResponse ==
  /\ RunningRequest # 0
  /\ LET q == apiRequests[RunningRequest]
     IN  /\ q.response # "null"
         /\ apiRequests' = [apiRequests EXCEPT ![RunningRequest].result =
              IF q.response = "not ok" THEN "ESPN API error"
              ELSE IF q.response = "ok non-JSON" THEN "ESPN API returned non-JSON body"
              ELSE "data"]
  /\ UNCHANGED notRequestVars

NextRequest ==
  \/ makeRequest
  \/ \E r \in Responses : fetchResponds(r)
  \/ \E err \in FetchErrors : fetchThrows(err)
  \/ readResponse

SpecRequest == InitRequest /\ [][NextRequest]_vars

-----------------------------------------------------------------------------
(* DataService.getExpectedStats, called by FantasyDashboard.fetchEstimate *)

Less(a, b) == a.num * b.den < b.num * a.den

\* (a + b) / 2
HalfSum(a, b) == [num |-> a.num * b.den + b.num * a.den, den |-> 2 * a.den * b.den]

\* One pass of insertion into a sorted array; equal values keep their order.
RECURSIVE Insert(_, _)
Insert(sorted, v) ==
  IF sorted = <<>> THEN <<v>>
  ELSE IF Less(v, Head(sorted)) THEN <<v>> \o sorted
  ELSE <<Head(sorted)>> \o Insert(Tail(sorted), v)

\* [...values].sort((a, b) => a - b), from value n on
RECURSIVE Sort(_, _, _)
Sort(values, n, sorted) ==
  IF n > Len(values) THEN sorted
  ELSE Sort(values, n + 1, Insert(sorted, values[n]))

\* Mutant of calculateMedian: the upper middle value also for an even number
\* of values.
calculateMedianUpperMiddle(values) ==
  IF Len(values) = 0 THEN Number(0)
  ELSE Sort(values, 1, <<>>)[(Len(values) \div 2) + 1]

\* sorted[middle] for an odd number of values, the mean of sorted[middle - 1]
\* and sorted[middle] for an even number (indices from 0 in the source)
calculateMedian(values) ==
  IF Len(values) = 0 THEN Number(0)
  ELSE LET sorted == Sort(values, 1, <<>>)
           middle == Len(sorted) \div 2
       IN  IF Len(sorted) % 2 = 0
             THEN HalfSum(sorted[middle], sorted[middle + 1])
             ELSE sorted[middle + 1]

\* The statistics of an estimate
StatNames ==
  {"runs", "homeRuns", "rbis", "stolenBases", "battingAverage", "hits",
   "strikeouts", "wins", "saves", "era", "whip", "qualityStarts"}

RateNames == {"battingAverage", "era", "whip"}

\* s.runs, s.battingAverage, ... of a team's weekly statistics, as a number
StatOf(s, f) == IF f \in RateNames THEN s[f] ELSE Number(s[f])

\* The estimate returned when no week has data
ZeroEstimate == [f \in StatNames |-> Number(0)]

\* The estimate could not be computed: getExpectedStats rejects.
EstimateError == [f \in StatNames |-> Number(-1)]

\* Mutant of ExpectedStatsOf: no data is an error.
ExpectedStatsOrError(stats) ==
  IF Len(stats) = 0 THEN EstimateError
  ELSE [f \in StatNames |-> calculateMedian([k \in 1..Len(stats) |-> StatOf(stats[k], f)])]

\* if (historicalStats.length === 0) return {runs: 0, ...}; else the median of
\* each stat
ExpectedStatsOf(stats) ==
  IF Len(stats) = 0 THEN ZeroEstimate
  ELSE [f \in StatNames |-> calculateMedian([k \in 1..Len(stats) |-> StatOf(stats[k], f)])]

\* What getWeeklyStats(week) holds of a team in teamStats: FinalStats of the
\* totals of some week
TeamWeek(runs, hits, atBats, strikeouts, earnedRuns, innings) ==
  FinalStats([ZeroAgg EXCEPT !.runs = runs, !.rbis = runs, !.hits = hits, !.hTotal = hits,
                             !.abTotal = atBats, !.strikeouts = strikeouts,
                             !.eraER = earnedRuns, !.eraIP = innings,
                             !.whipNum = hits, !.whipIP = innings])

\* What a getWeeklyStats call can answer for the team: its statistics, a
\* result without the team (no metadata, an error result), or a rejection.
WeekData(s) == [kind |-> "data", stats |-> s]

NoTeamData == [kind |-> "no data", stats |-> FinalStats(ZeroAgg)]

Rejected == [kind |-> "rejected", stats |-> FinalStats(ZeroAgg)]

WeekAnswers ==
  { WeekData(TeamWeek(3, 5, 20, 4, 2, 60)),
    WeekData(TeamWeek(1, 6, 18, 7, 1, 50)),
    WeekData(TeamWeek(2, 4, 21, 5, 3, 45)),
    NoTeamData, Rejected }

\* Array.from({length:4}, (_,i) => currentWeek-(i+1)).filter(w => w > 0)
weeksHistory(week) ==
  SelectSeq([i \in 1..4 |-> week - i], LAMBDA w : w > 0)

\* weeks.length > 0 ? weeks : [11, 12, 13, 14]
HistoricalWeeksOf(given) == IF Len(given) > 0 THEN given ELSE <<11, 12, 13, 14>>

\* The dashboard shows a team and some week of the season.
InitEstimate ==
  /\ InitLaterVars
  /\ InitCacheVars
  /\ InitMatchVars
  /\ InitWeeklyVars
  /\ InitStatsVars
  /\ InitRequestVars
  /\ currentWeek \in 1..MaxWeek
  /\ weeks = <<>>
  /\ historicalWeeks = <<>>
  /\ weekAnswers = <<>>
  /\ historicalStats = <<>>
  /\ expectedStats = NoEstimate

\* fetchEstimate computes weeksHistory and calls getExpectedStats, which
\* settles the weeks it will ask for.
fetchEstimate ==
  /\ historicalWeeks = <<>>
  /\ weeks' = weeksHistory(currentWeek)
  /\ historicalWeeks' = HistoricalWeeksOf(weeksHistory(currentWeek))
  /\ UNCHANGED <<currentWeek, weekAnswers, historicalStats, expectedStats>>
  /\ UNCHANGED notEstimateVars

\* One pass of `for (const week of historicalWeeks)`: getWeeklyStats answers
\* and the team's statistics are pushed if the answer has them; a rejection
\* is caught and logged.
getExpectedStatsWeek(answer) ==
  /\ expectedStats = NoEstimate
  /\ Len(weekAnswers) < Len(historicalWeeks)
  /\ weekAnswers' = Append(weekAnswers, answer)
  /\ historicalStats' = IF answer.kind = "data"
                          THEN Append(historicalStats, answer.stats)
                          ELSE historicalStats
  /\ UNCHANGED <<currentWeek, weeks, historicalWeeks, expectedStats>>
  /\ UNCHANGED notEstimateVars

\* After the loop: the all-zero estimate or the medians.
getExpectedStats ==
  /\ expectedStats = NoEstimate
  /\ historicalWeeks # <<>>
  /\ Len(weekAnswers) = Len(historicalWeeks)
  /\ expectedStats' = ExpectedStatsOf(historicalStats)
  /\ UNCHANGED <<currentWeek, weeks, historicalWeeks, weekAnswers, historicalStats>>
  /\ UNCHANGED notEstimateVars

NextEstimate ==
  \/ fetchEstimate
  \/ \E answer \in WeekAnswers : getExpectedStatsWeek(answer)
  \/ getExpectedStats

SpecEstimate == InitEstimate /\ [][NextEstimate]_vars

-----------------------------------------------------------------------------
(* DataService.getWeeklyStats: the accumulation in double arithmetic *)

\* The days of the week whose accumulation is modelled
MaxOrderDays == 3

\* A JavaScript number is an IEEE 754 double: 0, or m * 2^e with a 53-bit
\* significand m (2^52 <= m < 2^53). Significands and the intermediate
\* results of an operation are naturals held in limbs of 24 bits, lowest
\* limb first.
Limb == 2^24

BigZero == <<0, 0, 0, 0, 0>>

\* n < 2^31
BigOf(n) == <<n % Limb, n \div Limb, 0, 0, 0>>

BigPow2(k) ==
  [i \in 1..Len(BigZero) |-> IF i = (k \div 24) + 1 THEN 2^(k % 24) ELSE 0]

RECURSIVE AddLimbs(_, _, _, _)
AddLimbs(x, y, i, carry) ==
  IF i > Len(x) THEN <<>>
  ELSE LET s == x[i] + y[i] + carry
       IN  <<s % Limb>> \o AddLimbs(x, y, i + 1, s \div Limb)

BigAdd(x, y) == AddLimbs(x, y, 1, 0)

\* x - y for x >= y
RECURSIVE SubLimbs(_, _, _, _)
SubLimbs(x, y, i, borrow) ==
  IF i > Len(x) THEN <<>>
  ELSE LET d == x[i] - y[i] - borrow
       IN  IF d < 0 THEN <<d + Limb>> \o SubLimbs(x, y, i + 1, 1)
                    ELSE <<d>> \o SubLimbs(x, y, i + 1, 0)

BigSub(x, y) == SubLimbs(x, y, 1, 0)

BigLess(x, y) ==
  \E i \in 1..Len(x) :
    /\ x[i] < y[i]
    /\ \A j \in (i + 1)..Len(x) : x[j] = y[j]

BigOdd(x) == x[1] % 2 = 1

BigHalf(x) ==
  [i \in 1..Len(x) |->
     (x[i] \div 2) + (IF i < Len(x) THEN (x[i + 1] % 2) * (Limb \div 2) ELSE 0)]

\* x * 2^d
RECURSIVE ShiftLeft(_, _)
ShiftLeft(x, d) == IF d = 0 THEN x ELSE ShiftLeft(BigAdd(x, x), d - 1)

DoubleZero == [m |-> BigZero, e |-> 0]

\* The double nearest to q * 2^e, ties to the even significand (the IEEE 754
\* default rounding, the only one JavaScript has). q >= 2^52; sticky says that
\* the exact value is above q * 2^e by less than 2^e, and then q >= 2^53.
RECURSIVE RoundToNearestEven(_, _, _)
RoundToNearestEven(q, e, sticky) ==
  IF BigLess(q, BigPow2(53)) THEN [m |-> q, e |-> e]
  ELSE IF BigLess(q, BigPow2(54))
    THEN LET m  == BigHalf(q)
             up == BigOdd(q) /\ (sticky \/ BigOdd(m))
             m1 == IF up THEN BigAdd(m, BigOf(1)) ELSE m
         IN  IF m1 = BigPow2(53) THEN [m |-> BigPow2(52), e |-> e + 2]
                                 ELSE [m |-> m1, e |-> e + 1]
    ELSE RoundToNearestEven(BigHalf(q), e + 1, sticky \/ BigOdd(q))

\* x + y of two doubles >= 0: the exact sum, rounded.
DoubleAdd(x, y) ==
  IF x.m = BigZero THEN y
  ELSE IF y.m = BigZero THEN x
  ELSE LET hi == IF x.e >= y.e THEN x ELSE y
           lo == IF x.e >= y.e THEN y ELSE x
           d  == hi.e - lo.e
       IN  IF d > 55 THEN hi
           ELSE RoundToNearestEven(BigAdd(ShiftLeft(hi.m, d), lo.m), lo.e, FALSE)

\* One step of the long division by b, which gives one binary digit of the
\* quotient: q / 2^t is the quotient so far and r < b the remainder. No step
\* is made once the quotient has 54 digits.
DivideStep(s, b) ==
  IF ~BigLess(s.q, BigPow2(53)) THEN s
  ELSE LET q2 == BigAdd(s.q, s.q)
           r2 == BigAdd(s.r, s.r)
       IN  IF BigLess(r2, b)
             THEN [q |-> q2, r |-> r2, t |-> s.t + 1]
             ELSE [q |-> BigAdd(q2, BigOf(1)), r |-> BigSub(r2, b), t |-> s.t + 1]

DivideSteps(s, b) ==
  DivideStep(DivideStep(DivideStep(DivideStep(
  DivideStep(DivideStep(DivideStep(DivideStep(s, b), b), b), b), b), b), b), b)

\* The double nearest to the exact quotient: the long division until the
\* quotient has 54 digits, then the rounding.
RECURSIVE DivideBits(_, _)
DivideBits(s, b) ==
  IF ~BigLess(s.q, BigPow2(53)) THEN RoundToNearestEven(s.q, -s.t, s.r # BigZero)
  ELSE DivideBits(DivideSteps(s, b), b)

\* a / x for a natural a < 2^24 and a double x > 0
DoubleDiv(a, x) ==
  IF a = 0 THEN DoubleZero
  ELSE LET d == DivideBits([q |-> BigZero, r |-> BigOf(a), t |-> 0], x.m)
       IN  [m |-> d.m, e |-> d.e - x.e]

\* Number(stats.pitching.inningsPitched || 0): the statistics provider gives
\* the innings as a decimal string with one digit after the point ("5.1"),
\* which the model holds in tenths; Number() gives the double nearest to it.
NumberOfTenths(k) ==
  IF k = 0 THEN DoubleZero
  ELSE DivideBits([q |-> BigOf(k \div 10), r |-> BigOf(k % 10), t |-> 0], BigOf(10))

\* The doubles of the innings the model uses, computed once
inningsNumbers == [k \in 0..99 |-> NumberOfTenths(k)]

\* let agg = {...}; let abTotal = 0, ..., eraIP = 0, ..., whipIP = 0
ZeroAggDouble == [ZeroAgg EXCEPT !.eraIP = DoubleZero, !.whipIP = DoubleZero]

\* The pitching block of the loop over the matches, eraIP and whipIP being
\* doubles.
AddPitchingDouble(a, p) ==
  LET ip == inningsNumbers[p.inningsPitched]
  IN  [a EXCEPT !.strikeouts = @ + p.strikeOuts, !.wins = @ + p.wins,
                !.saves = @ + p.saves,
                !.eraIP = DoubleAdd(@, ip), !.eraER = @ + p.earnedRuns,
                !.whipNum = @ + p.hits + p.baseOnBalls, !.whipIP = DoubleAdd(@, ip),
                !.qualityStarts = @ + (IF IsQualityStart(p.inningsPitched, p.earnedRuns)
                                         THEN 1 ELSE 0)]

\* const stats = match.mlbPlayer.stats; if (stats) {...}
AddStatsDouble(a, stats) ==
  LET a1 == IF stats.batting.present THEN AddBatting(a, stats.batting) ELSE a
      a2 == IF stats.pitching.present THEN AddPitchingDouble(a1, stats.pitching) ELSE a1
  IN  [a2 EXCEPT !.totalMatches = @ + 1]

\* The records of one day, from record k on
RECURSIVE AggregateDouble(_, _, _)
AggregateDouble(a, records, k) ==
  IF k > Len(records) THEN a
  ELSE AggregateDouble(AddStatsDouble(a, records[k].stats), records, k + 1)

\* for (let dayIndex = 0; ...): the days in the order given, from position n on
RECURSIVE AggregateDays(_, _, _, _)
AggregateDays(a, days, order, n) ==
  IF n > Len(order) THEN a
  ELSE AggregateDays(AggregateDouble(a, days[order[n]], 1), days, order, n + 1)

\* Calculate final averages
FinalStatsDouble(a) ==
  [runs |-> a.runs, homeRuns |-> a.homeRuns, rbis |-> a.rbis,
   stolenBases |-> a.stolenBases, hits |-> a.hits, strikeouts |-> a.strikeouts,
   wins |-> a.wins, saves |-> a.saves, qualityStarts |-> a.qualityStarts,
   battingAverage |-> Rate(a.hTotal, a.abTotal),
   era |-> IF a.eraIP # DoubleZero THEN DoubleDiv(a.eraER * 9, a.eraIP) ELSE DoubleZero,
   whip |-> IF a.whipIP # DoubleZero THEN DoubleDiv(a.whipNum, a.whipIP) ELSE DoubleZero]

RoeOneOut ==
  MLBStatPlayer(4, A_lRoe, Dodgers,
                NoBatting, Pitching(1, 1, 1, 0, 0, 0, 0))

RoeOneInning ==
  MLBStatPlayer(4, A_lRoe, Dodgers,
                NoBatting, Pitching(10, 0, 1, 0, 1, 0, 0))

\* The records whose match is added to the totals on one day
OrderPool ==
  { <<>>, <<RoeOneOut>>, <<RoeOneInning>>, <<JoseHitting, RoePitching>>,
    <<RoeFiveInnings>> }

\* The orders in which n days can be processed
Orders(n) ==
  { o \in [1..n -> 1..n] : \A i, j \in 1..n : o[i] = o[j] => i = j }

CodeOrder == [i \in 1..MaxOrderDays |-> i]

InitOrder ==
  /\ InitEarlierVars
  /\ InitRepeatVars
  /\ InitAppVars
  /\ orderLines \in [1..MaxOrderDays -> OrderPool]
  /\ orderTotals = <<>>

WeekTotals(order) ==
  [order |-> order,
   stats |-> FinalStatsDouble(AggregateDays(ZeroAggDouble, orderLines, order, 1))]

\* The loop over the days as getWeeklyStats runs it, and the final averages
accumulateWeek ==
  /\ orderTotals = <<>>
  /\ orderTotals' = <<WeekTotals(CodeOrder)>>
  /\ UNCHANGED orderLines
  /\ UNCHANGED notOrderVars

\* The same loop with the days taken in another order
accumulatePermuted(order) ==
  /\ Len(orderTotals) = 1
  /\ order # CodeOrder
  /\ orderTotals' = Append(orderTotals, WeekTotals(order))
  /\ UNCHANGED orderLines
  /\ UNCHANGED notOrderVars

NextOrder ==
  \/ accumulateWeek
  \/ \E order \in Orders(MaxOrderDays) : accumulatePermuted(order)

SpecOrder == InitOrder /\ [][NextOrder]_vars

-----------------------------------------------------------------------------
(* DataService.getWeeklyStats: a second call for the same week *)

\* The accumulators at the start of the loop over a team's days; the mutant
\* takes them over from the call before.
AggAtCallStartKept == agg

\* const agg = {runs: 0, ...}; let abTotal = 0, ...: locals of the producer
AggAtCallStart == ZeroAgg

\* The week is asked for again, after the first call has returned and with
\* the upstream data as they were: the cached result is deleted
\* (this.cache.delete(cacheKey)) and the producer runs again, with its own
\* locals.
getWeeklyStatsAgain ==
  /\ firstCall = NoCall
  /\ weeklyResult # NoWeeklyResult
  /\ firstCall' = [result |-> weeklyResult, log |-> dayLog]
  /\ dayIndex' = 0
  /\ agg' = AggAtCallStart
  /\ dayLog' = <<>>
  /\ weeklyResult' = NoWeeklyResult
  /\ UNCHANGED <<weekRosters, weekFeeds>>
  /\ UNCHANGED <<earlierVarsButWeekly, orderVars, appVars>>

\* The second call meets the answers the first call met: the roster of a day
\* is fetched or fails as before, getMLBPlayersForDate returns what it put
\* into playersCache during the first call (the records it fetched, or [] when
\* both of its paths failed), and Fuse and string-similarity, being
\* functions of their arguments, give the same scores for the same names.
Replays ==
  /\ Len(dayLog) <= Len(firstCall.log)
  /\ \A d \in 1..Len(dayLog) :
       /\ dayLog[d].feed = firstCall.log[d].feed
       /\ dayLog[d].fetched = firstCall.log[d].fetched
       /\ dayLog[d].matches = firstCall.log[d].matches
  /\ weeklyResult # NoWeeklyResult =>
       /\ weeklyResult.note = firstCall.result.note
       /\ Len(dayLog) = Len(firstCall.log)

InitRepeat == InitWeekly

NextRepeat ==
  \/ firstCall = NoCall /\ NextWeekly
  \/ getWeeklyStatsAgain
  \/ firstCall # NoCall /\ NextWeekly /\ Replays'

SpecRepeat == InitRepeat /\ [][NextRepeat]_vars

-----------------------------------------------------------------------------
(* The application in demo mode                                            *)
(*                                                                         *)
(* InitialSetup stores dev_mode when its three fields hold 'test' and      *)
(* reloads the page.  On a load the module of the DataService is           *)
(* evaluated (its constructor starts the roster snapshot), the             *)
(* DataProvider's effect runs, and the effects of FantasyDashboard run.    *)
(* externalCalls records the requests sent to the fantasy platform and to  *)
(* the statistics provider since the page was loaded.                      *)

\* What a field of the setup form may hold: nothing, 'test', or a value of
\* the form the field asks for (50 characters, 30 characters, digits).
FieldValues == {"", "test", "valid"}

AllTest(f) == \A i \in 1..3 : f[i] = "test"

\* validity.s2 && validity.swid && validity.leagueId: 'test' has neither 50
\* nor 30 characters and is not a number.
isFormValid(f) == AllTest(f) \/ \A i \in 1..3 : f[i] = "valid"

Called(service) == [service |-> service]

\* Has a request gone out since the page was loaded
SentTo(service) == \E i \in 1..Len(externalCalls) : externalCalls[i].service = service

\* ensureWeekMaps: the season's dates are asked of the statistics provider
\* unless the week maps have been built.
SeasonDatesCalls == IF page.weekMaps THEN <<>> ELSE <<Called("statistics")>>

InitDemo ==
  /\ InitEarlierVars
  /\ InitOrderVars
  /\ InitRepeatVars
  /\ InitLoadVars
  /\ InitPlayerVars
  /\ InitCalendarVars
  /\ storage \in [dev_mode : BOOLEAN]
  /\ form = <<"", "", "">>
  /\ page = FreshPage
  /\ externalCalls = <<>>

\* new DataService(): the constructor imports the roster history and calls
\* snapshotToday, which asks getTeams, which asks the fantasy platform for
\* the league.
snapshotToday ==
  /\ page.snapshot = "idle"
  /\ page' = [page EXCEPT !.snapshot = "teams"]
  /\ externalCalls' = Append(externalCalls, Called("fantasy"))
  /\ UNCHANGED <<storage, form>>
  /\ UNCHANGED notDemoVars

\* getTeams settles: with the teams, the snapshot asks for the current week
\* (getCurrentWeekSafe) and for the roster of each team; an error is caught
\* and ends the snapshot.
snapshotRosters(ok) ==
  /\ page.snapshot = "teams"
  /\ page' = IF ok THEN [page EXCEPT !.snapshot = "rosters", !.weekMaps = TRUE]
                   ELSE [page EXCEPT !.snapshot = "done"]
  /\ externalCalls' =
       IF ok THEN externalCalls \o SeasonDatesCalls \o <<Called("fantasy")>>
             ELSE externalCalls
  /\ UNCHANGED <<storage, form>>
  /\ UNCHANGED notDemoVars

\* The rosters settle and the snapshot is stored, or the error is caught.
snapshotStored ==
  /\ page.snapshot = "rosters"
  /\ page' = [page EXCEPT !.snapshot = "done"]
  /\ UNCHANGED <<storage, form, externalCalls>>
  /\ UNCHANGED notDemoVars

\* The effect of DataProvider with dev_mode set: the demo league, no teams,
\* week 1, an empty week map.
devModeStub ==
  /\ page.snapshot # "idle"
  /\ page.provider = "unmounted"
  /\ storage.dev_mode
  /\ page' = [page EXCEPT !.provider = "ready", !.leagueInfo = "demo", !.week = 1]
  /\ UNCHANGED <<storage, form, externalCalls>>
  /\ UNCHANGED notDemoVars

\* The effect of DataProvider without dev_mode: initializeData asks for the
\* league, the teams, the standings and the current week.
initializeData ==
  /\ page.snapshot # "idle"
  /\ page.provider = "unmounted"
  /\ ~storage.dev_mode
  /\ page' = [page EXCEPT !.provider = "loading"]
  /\ externalCalls' = externalCalls \o <<Called("fantasy")>> \o SeasonDatesCalls
  /\ UNCHANGED <<storage, form>>
  /\ UNCHANGED notDemoVars

\* The requests of initializeData settle: the context takes the league and
\* the week, or the error.
initializeDataSettles(ok, week) ==
  /\ page.provider = "loading"
  /\ page' = IF ok
             THEN [page EXCEPT !.provider = "ready", !.leagueInfo = "league",
                               !.week = week, !.weekMaps = TRUE]
             ELSE [page EXCEPT !.provider = "ready"]
  /\ UNCHANGED <<storage, form, externalCalls>>
  /\ UNCHANGED notDemoVars

\* FantasyDashboard's effect on currentWeek: the first week above 0 is
\* loaded, once; loadWeek asks getWeeklyStats and getExpectedStats, which
\* need the week map.
initialWeekLoad ==
  /\ page.provider = "ready"
  /\ ~page.initialWeekLoaded
  /\ page.week > 0
  /\ page' = [page EXCEPT !.initialWeekLoaded = TRUE, !.weekMaps = TRUE]
  /\ externalCalls' = externalCalls \o SeasonDatesCalls \o <<Called("fantasy")>>
  /\ UNCHANGED <<storage, form>>
  /\ UNCHANGED notDemoVars

\* No league in the context: the setup form is shown.
needsSetup == page.provider = "ready" /\ page.leagueInfo = "none"

\* The user types into a field of the setup form.
setField(i, value) ==
  /\ needsSetup
  /\ form[i] # value
  /\ form' = [form EXCEPT ![i] = value]
  /\ UNCHANGED <<storage, page, externalCalls>>
  /\ UNCHANGED notDemoVars

\* handleSave, then window.location.reload(): toggleAPIMode does nothing,
\* dev_mode is stored for three 'test' fields, and the page starts again.
handleSave ==
  /\ needsSetup
  /\ isFormValid(form)
  /\ storage' = IF AllTest(form) THEN [storage EXCEPT !.dev_mode = TRUE] ELSE storage
  /\ form' = <<"", "", "">>
  /\ page' = FreshPage
  /\ externalCalls' = <<>>
  /\ UNCHANGED notDemoVars

NextDemo ==
  \/ snapshotToday
  \/ \E ok \in BOOLEAN : snapshotRosters(ok)
  \/ snapshotStored
  \/ devModeStub
  \/ initializeData
  \/ \E ok \in BOOLEAN, week \in 1..MaxWeek : initializeDataSettles(ok, week)
  \/ initialWeekLoad
  \/ \E i \in 1..3, value \in FieldValues : setField(i, value)
  \/ handleSave

SpecDemo == InitDemo /\ [][NextDemo]_vars

-----------------------------------------------------------------------------
(* DataProvider.loadWeek                                                   *)
(*                                                                         *)
(* The context holds the selected week and the statistics and estimate     *)
(* shown for it; 0 stands for null.  What getWeeklyStats(week) and         *)
(* getExpectedStats(0, [week]) answer is written as the week it was asked  *)
(* for.                                                                    *)

\* availableWeeks: the weeks of the week map
AvailableWeeks == 1..MaxWeek

LoadOf(week) == [week |-> week, state |-> "pending"]

StatsOfWeek(week) == week

EstimateOfWeek(week) == week

InitLoad ==
  /\ InitEarlierVars
  /\ InitOrderVars
  /\ InitRepeatVars
  /\ InitDemoVars
  /\ InitPlayerVars
  /\ InitCalendarVars
  /\ \E week \in AvailableWeeks :
       context = [currentWeek |-> week, weeklyStats |-> 0, weeklyEstimate |-> 0,
                  error |-> FALSE]
  /\ weekLoads = <<>>

\* loadWeek up to its await: the week is selected, the data of the week
\* before are cleared, and the two requests are sent.
loadWeek(week) ==
  /\ context' = [currentWeek |-> week, weeklyStats |-> 0, weeklyEstimate |-> 0,
                 error |-> FALSE]
  /\ weekLoads' = Append(weekLoads, LoadOf(week))
  /\ UNCHANGED notLoadVars

\* FantasyDashboard's effect: the first week is loaded, once.
loadInitialWeek ==
  /\ weekLoads = <<>>
  /\ loadWeek(context.currentWeek)

\* The Previous and Next buttons
handleWeekChange(direction) ==
  /\ weekLoads # <<>>
  /\ Len(weekLoads) < MaxLoads
  /\ context.currentWeek + direction \in AvailableWeeks
  /\ loadWeek(context.currentWeek + direction)

\* loadWeek after its await: both requests were fulfilled and the answers
\* are put into the context, whatever week is selected by then, or one was
\* rejected and the error is set.
loadWeekSettles(i, ok) ==
  /\ i \in 1..Len(weekLoads)
  /\ weekLoads[i].state = "pending"
  /\ weekLoads' = [weekLoads EXCEPT ![i].state = IF ok THEN "fulfilled" ELSE "rejected"]
  /\ context' =
       IF ok
         THEN [context EXCEPT !.weeklyStats = StatsOfWeek(weekLoads[i].week),
                              !.weeklyEstimate = EstimateOfWeek(weekLoads[i].week)]
         ELSE [context EXCEPT !.error = TRUE]
  /\ UNCHANGED notLoadVars

NextLoad ==
  \/ loadInitialWeek
  \/ \E direction \in {-1, 1} : handleWeekChange(direction)
  \/ \E i \in 1..MaxLoads, ok \in BOOLEAN : loadWeekSettles(i, ok)

SpecLoad == InitLoad /\ [][NextLoad]_vars

-----------------------------------------------------------------------------
(* getWeeklyStats on a day served by the box scores                        *)
(*                                                                         *)
(* getWeeklyStats hands the array of getMLBPlayersForDate to matchPlayers  *)
(* and adds match.mlbPlayer.stats of every match it uses.  Fuse and        *)
(* string-similarity are functions of the names they compare: a table      *)
(* gives their answer for each pair of a roster name and a record name.    *)

\* The roster of the day: a hitter and a pitcher, both in starting slots
BoxscoreDayRoster == <<ToESPNPlayer(HitterSlot0), ToESPNPlayer(PitcherSlot13)>>

RecordNames == {Jose, Josh, A_lRoe}

\* The answers the two libraries can give for the names of a roster
NameTables ==
  { t \in [{HitterSlot0.name, PitcherSlot13.name} \X RecordNames ->
             AnswersFor(TRUE) \cup AnswersFor(FALSE)] :
      \A pair \in DOMAIN t :
        t[pair] \in AnswersFor(NormalizedName(pair[1]) = NormalizedName(pair[2])) }

\* The record whose statistics getWeeklyStats adds for each roster entry from
\* entry n on (0: none, no match or a match below the floor)
RECURSIVE MatchedRecords(_, _, _, _, _)
MatchedRecords(espn, candidates, table, n, used) ==
  IF n > Len(espn) THEN <<>>
  ELSE LET answers(field) ==
             [i \in 1..Len(candidates) |->
                table[<<espn[n].fullName, candidates[i].fullName>>][field]]
           bestMatch == BestMatchFor(espn[n], candidates, used,
                                     answers("fuseScore"), answers("stringSimilarity"))
       IN  <<IF UsesMatch(bestMatch) THEN candidates[bestMatch.mlbPlayer] ELSE 0>>
             \o MatchedRecords(espn, candidates, table, n + 1,
                               UsedAfter(used, candidates, bestMatch))

-----------------------------------------------------------------------------
(* WeeklyEstimateService.getPlayerWeeklyEstimate                           *)
(*                                                                         *)
(* The fantasy platform and the statistics provider number the players     *)
(* independently: an id is written with the numbering it comes from.  The  *)
(* service is asked for week 1 (no earlier week) or week 2 (the days of    *)
(* week 1 are looked up).                                                  *)

PlatformIds == {1, 3}

ProviderIds == {1, 2}

EstimateWeeks == {1, 2}

NoId == [numbering |-> "none", id |-> 0]

ProviderId(id) == [numbering |-> "provider", id |-> id]

PlatformId(id) == [numbering |-> "platform", id |-> id]

\* `${playerId}-${week}`
PlayerCacheKey(playerId, week) == <<playerId, week>>

PlayerRun(playerId, week, pc) ==
  [playerId |-> playerId, week |-> week, pc |-> pc, mlbId |-> NoId,
   targetId |-> NoId, lookups |-> <<>>, stats |-> 0, dataSource |-> "none"]

\* The call that is running, if any
RunningPlayer == Len(playerRuns) > 0 /\ playerRuns[Len(playerRuns)].pc # "done"

ThisRun == playerRuns[Len(playerRuns)]

\* const targetId = mlbId || playerId
TargetId(mlbId, playerId) == IF mlbId # NoId THEN mlbId ELSE PlatformId(playerId)

\* The days getLast4WeeksData walks through: those of the weeks before the
\* current one that are in the week map.
LookDays(week) == IF week > 1 THEN Len(dailyStats) ELSE 0

InitPlayer ==
  /\ InitEarlierVars
  /\ InitOrderVars
  /\ InitRepeatVars
  /\ InitDemoVars
  /\ InitLoadVars
  /\ InitCalendarVars
  /\ dailyStats \in [1..MaxLookDays -> SUBSET ProviderIds]
  /\ estimateCache = [x \in {} |-> 0]
  /\ playerRuns = <<>>

\* getPlayerWeeklyEstimate up to the resolver: a cached estimate is returned.
getPlayerWeeklyEstimate(playerId, week) ==
  /\ ~RunningPlayer
  /\ Len(playerRuns) < MaxPlayerCalls
  /\ playerRuns' =
       Append(playerRuns,
              IF PlayerCacheKey(playerId, week) \in DOMAIN estimateCache
                THEN [PlayerRun(playerId, week, "done") EXCEPT
                        !.dataSource = estimateCache[PlayerCacheKey(playerId, week)]]
                ELSE PlayerRun(playerId, week, "resolve"))
  /\ UNCHANGED <<dailyStats, estimateCache>>
  /\ UNCHANGED notPlayerVars

\* The resolver: matchPlayers for the first day of the week gives a record
\* with confidence above 0.5, or gives none, or the day's records cannot be
\* fetched.
resolvePlayer(id) ==
  /\ RunningPlayer
  /\ ThisRun.pc = "resolve"
  /\ playerRuns' = [playerRuns EXCEPT ![Len(playerRuns)] =
                      [@ EXCEPT !.mlbId = id,
                                !.pc = IF id = NoId THEN "search" ELSE "target"]]
  /\ UNCHANGED <<dailyStats, estimateCache>>
  /\ UNCHANGED notPlayerVars

\* The people search by name: data.people[0].id, or nothing.
searchPeople(id) ==
  /\ RunningPlayer
  /\ ThisRun.pc = "search"
  /\ playerRuns' = [playerRuns EXCEPT ![Len(playerRuns)] =
                      [@ EXCEPT !.mlbId = id, !.pc = "target"]]
  /\ UNCHANGED <<dailyStats, estimateCache>>
  /\ UNCHANGED notPlayerVars

\* The id the daily statistics are looked up under
chooseTarget ==
  /\ RunningPlayer
  /\ ThisRun.pc = "target"
  /\ playerRuns' = [playerRuns EXCEPT ![Len(playerRuns)] =
                      [@ EXCEPT !.targetId = TargetId(ThisRun.mlbId, ThisRun.playerId),
                                !.pc = "lookup"]]
  /\ UNCHANGED <<dailyStats, estimateCache>>
  /\ UNCHANGED notPlayerVars

\* getLast4WeeksData, one day: dayStats[playerId] of getDailyStatsMap(dateStr),
\* whose keys are the provider's ids.
getLast4WeeksDataDay ==
  /\ RunningPlayer
  /\ ThisRun.pc = "lookup"
  /\ Len(ThisRun.lookups) < LookDays(ThisRun.week)
  /\ LET day == Len(ThisRun.lookups) + 1
     IN  playerRuns' = [playerRuns EXCEPT ![Len(playerRuns)] =
                          [@ EXCEPT !.lookups = Append(@, ThisRun.targetId),
                                    !.stats = IF ThisRun.targetId.id \in dailyStats[day]
                                                THEN @ + 1 ELSE @]]
  /\ UNCHANGED <<dailyStats, estimateCache>>
  /\ UNCHANGED notPlayerVars

\* The estimate is computed from the lines found, or is the placeholder, and
\* is cached.
returnEstimate ==
  /\ RunningPlayer
  /\ ThisRun.pc = "lookup"
  /\ Len(ThisRun.lookups) = LookDays(ThisRun.week)
  /\ LET dataSource == IF ThisRun.stats > 0 THEN "last4weeks" ELSE "minorLeague"
     IN  /\ playerRuns' = [playerRuns EXCEPT ![Len(playerRuns)] =
                             [@ EXCEPT !.pc = "done", !.dataSource = dataSource]]
         /\ estimateCache' =
              [k \in DOMAIN estimateCache \cup {PlayerCacheKey(ThisRun.playerId, ThisRun.week)} |->
                 IF k = PlayerCacheKey(ThisRun.playerId, ThisRun.week)
                   THEN dataSource ELSE estimateCache[k]]
  /\ UNCHANGED dailyStats
  /\ UNCHANGED notPlayerVars

NextPlayer ==
  \/ \E playerId \in PlatformIds, week \in EstimateWeeks :
       getPlayerWeeklyEstimate(playerId, week)
  \/ \E id \in {NoId} \cup {ProviderId(i) : i \in ProviderIds} : resolvePlayer(id)
  \/ \E id \in {NoId} \cup {ProviderId(i) : i \in ProviderIds} : searchPeople(id)
  \/ chooseTarget
  \/ getLast4WeeksDataDay
  \/ returnEstimate

SpecPlayer == InitPlayer /\ [][NextPlayer]_vars

-----------------------------------------------------------------------------
(* The week calendar and DataService.getCurrentWeek                        *)
(*                                                                         *)
(* Instants are hours since a Monday 00:00 UTC; a game day is a number of  *)
(* days since that Monday, and the Date of a game day is its midnight UTC  *)
(* (getSeasonDates: new Date(`${ds}T00:00:00Z`)).                          *)

\* msPerDay, in hours
hoursPerDay == 24

\* The clock is read every half day.
ClockStep == hoursPerDay \div 2

\* getUTCDay() of a day: 1 on a Monday
UTCDay(day) == (day + 1) % 7

\* The first Monday on or after the first game date
RECURSIVE FirstMonday(_)
FirstMonday(day) == IF UTCDay(day) = 1 THEN day ELSE FirstMonday(day + 1)

\* buildWeekMetaMapFromMLB, from the week that starts on day ptr on: blocks of
\* seven days as long as the block starts on or before the last game day
RECURSIVE WeeksFrom(_, _, _)
WeeksFrom(ptr, last, matchup) ==
  IF ptr <= last /\ matchup <= 30
    THEN <<[matchupPeriodId |-> matchup,
            startISO |-> ptr * hoursPerDay,
            endISO |-> ptr * hoursPerDay + 6 * hoursPerDay]>>
           \o WeeksFrom(ptr + 7, last, matchup + 1)
    ELSE <<>>

buildWeekMetaMapFromMLB(dates) == WeeksFrom(FirstMonday(dates.first), dates.last, 1)

\* The first week whose end date is not before the date, from week n on; the last
\* week when there is none
RECURSIVE CurrentWeekFrom(_, _, _)
CurrentWeekFrom(weekMetaMap, date, n) ==
  IF n > Len(weekMetaMap) THEN Len(weekMetaMap)
  ELSE IF weekMetaMap[n].endISO >= date THEN weekMetaMap[n].matchupPeriodId
  ELSE CurrentWeekFrom(weekMetaMap, date, n + 1)

\* The seasons: the first game day falls on any day of a week, and the season
\* has at least one week that starts on a Monday.
Seasons ==
  { dates \in [first : 0..6, last : 0..(6 + MaxSeasonDays)] :
      /\ dates.last - dates.first <= MaxSeasonDays
      /\ dates.last >= FirstMonday(dates.first) }

InitCalendar ==
  /\ InitEarlierVars
  /\ InitOrderVars
  /\ InitRepeatVars
  /\ InitDemoVars
  /\ InitLoadVars
  /\ InitPlayerVars
  /\ mlbSchedule \in Seasons
  /\ today = 0
  /\ weekNow = 0

\* Time passes.
tickToday ==
  /\ today + ClockStep <= (mlbSchedule.last + 7) * hoursPerDay
  /\ today' = today + ClockStep
  /\ weekNow' = 0
  /\ UNCHANGED mlbSchedule
  /\ UNCHANGED notCalendarVars

\* getCurrentWeek: the week maps are built from the season's dates and the
\* weeks are gone through in ascending order.
getCurrentWeek ==
  /\ weekNow = 0
  /\ weekNow' = CurrentWeekFrom(buildWeekMetaMapFromMLB(mlbSchedule), today, 1)
  /\ UNCHANGED <<mlbSchedule, today>>
  /\ UNCHANGED notCalendarVars

NextCalendar ==
  \/ tickToday
  \/ getCurrentWeek

SpecCalendar == InitCalendar /\ [][NextCalendar]_vars

-----------------------------------------------------------------------------
(* Properties of the cache layer, checked under SpecCache *)

\* The call a fetchWithCache step has just added
NewCall == calls[Len(calls)]

\* This step is a call fetchWithCache(k)
FetchStep(k) == Len(calls') = Len(calls) + 1 /\ NewCall'.key = k

\* This step is the continuation of the call that started request r
CompleteStep(r) ==
  /\ r \in 1..Len(requests)
  /\ ~requests[r].completed
  /\ requests'[r].completed

\* This step is a clearCache() that found something to clear or follows another operation
ClearStep == lastOp.op # "clear" /\ lastOp'.op = "clear"

\* Every call that has settled on a request holds what that request's fetcher produced.
CallsHoldRequestResult ==
  \A c \in 1..Len(calls) :
    (calls[c].kind # "hit" /\ calls[c].settled)
      => calls[c].result = requests[calls[c].request].data

\* C1: a call fetchWithCache(k) made while the request that an earlier call
\* for k started is still in flight, with no clearCache since that earlier
\* call and no fresh cache entry for k, invokes no fetcher and is attached to
\* that request; and all calls attached to a request receive its result.
C1_OneProducerPerKey ==
  /\ [][\A k \in Keys : \A r \in 1..Len(requests) :
          ( /\ FetchStep(k)
            /\ requests[r].key = k
            /\ requests[r].state = "pending"
            /\ ~requests[r].clearedSince
            /\ ~(k \in DOMAIN cache /\ now - cache[k].timestamp < cacheTimeout) )
          => (requests' = requests /\ NewCall'.request = r)]_vars
  /\ []CallsHoldRequestResult

\* C2: a call for a key whose cache entry is younger than the TTL returns the
\* cached data and invokes no fetcher; a call for a key whose entry has age
\* >= TTL does not return the entry.
C2_FreshHitStaleMiss ==
  [][\A k \in Keys :
       (FetchStep(k) /\ k \in DOMAIN cache)
         => IF now - cache[k].timestamp < 12 * 60 * 60 * 1000
              THEN /\ requests' = requests
                   /\ NewCall'.kind = "hit"
                   /\ NewCall'.settled
                   /\ NewCall'.result = cache[k].data
              ELSE /\ NewCall'.kind # "hit"
                   /\ ~NewCall'.settled]_vars

\* C2 witness: an entry of age TTL-1 has been returned from the cache and a
\* later call has found the entry at age exactly TTL and invoked the fetcher.
C2_Witness ==
  /\ lastOp.op = "fetch"
  /\ lastOp.kind = "started"
  /\ lastOp.age = cacheTimeout
  /\ \E c \in 1..Len(calls) : calls[c].kind = "hit" /\ calls[c].key = lastOp.key

\* C3 as stated: when a request fails, its callers receive the error, the
\* cache is not written, and a fetchWithCache for the key now invokes the fetcher.
C3_FailureNotCachedRetried ==
  /\ [][\A r \in 1..Len(requests) :
          (CompleteStep(r) /\ requests[r].state = "rejected")
            => /\ cache' = cache
               /\ FetchKind(requests[r].key)' = "started"]_vars
  /\ [](\A c \in 1..Len(calls) :
          (calls[c].kind # "hit" /\ calls[c].settled
             /\ requests[calls[c].request].state = "rejected")
            => calls[c].result.status = "error")

\* C3 amended: when a request fails, its callers receive the error, the cache
\* is not written, and a fetchWithCache for the key made once the failed
\* request has completed invokes the fetcher unless the cache holds a fresh
\* entry that another request for the key has written.
C3_FailureNotCached ==
  /\ [][\A r \in 1..Len(requests) :
          (CompleteStep(r) /\ requests[r].state = "rejected")
            => /\ cache' = cache
               /\ \/ FetchKind(requests[r].key)' = "started"
                  \/ /\ FetchKind(requests[r].key)' = "hit"
                     /\ requests[r].key \in DOMAIN cache'
                     /\ now' - cache'[requests[r].key].timestamp < 12 * 60 * 60 * 1000
                     /\ cache'[requests[r].key].data.status = "ok"
                     /\ cache'[requests[r].key].data.value # r]_vars
  /\ [](\A c \in 1..Len(calls) :
          (calls[c].kind # "hit" /\ calls[c].settled
             /\ requests[calls[c].request].state = "rejected")
            => calls[c].result.status = "error")

\* C3 witness: a request with a joined caller has failed, both callers hold
\* the error, and nothing is cached or pending for the key.
C3_Witness ==
  \E c1, c2 \in 1..Len(calls) :
    /\ calls[c1].kind = "started"
    /\ calls[c2].kind = "joined"
    /\ calls[c2].request = calls[c1].request
    /\ calls[c1].settled /\ calls[c2].settled
    /\ calls[c1].result.status = "error"
    /\ calls[c2].result.status = "error"
    /\ calls[c1].key \notin DOMAIN cache
    /\ FetchKind(calls[c1].key) = "started"

\* C4: the continuation of a request, fulfilled or rejected, leaves its key
\* out of the in-flight registry; every key in the registry has a request
\* that has not completed, so with no request in progress the registry is empty.
C4_MarkerRemoved ==
  /\ [][\A r \in 1..Len(requests) :
          CompleteStep(r) => requests[r].key \notin DOMAIN pendingRequests']_vars
  /\ [](\A k \in DOMAIN pendingRequests :
          \E r \in 1..Len(requests) : requests[r].key = k /\ ~requests[r].completed)
  /\ []((\A r \in 1..Len(requests) : requests[r].completed)
          => pendingRequests = EmptyMap)

\* C4 witness: a request has just completed with a failure and every request
\* has completed.
C4_Witness ==
  /\ lastOp.op = "complete"
  /\ lastOp.kind = "rejected"
  /\ Len(requests) >= 2
  /\ \A r \in 1..Len(requests) : requests[r].completed
  /\ pendingRequests = EmptyMap

\* C5: clearCache() leaves the cache and the in-flight registry empty, and a
\* fetchWithCache that is the next operation, for any key, invokes its fetcher.
C5_ClearForcesRecompute ==
  /\ [][ClearStep => /\ cache' = EmptyMap
                     /\ pendingRequests' = EmptyMap
                     /\ \A k \in Keys : FetchKind(k)' = "started"]_vars
  /\ [][\A k \in Keys :
          (lastOp.op = "clear" /\ FetchStep(k))
            => /\ Len(requests') = Len(requests) + 1
               /\ NewCall'.kind = "started"
               /\ requests'[Len(requests')].key = k]_vars

\* C5 witness: a fetcher for a key was started, and while it was still
\* running a call for the same key has started another one.
C5_Witness ==
  /\ lastOp.op = "fetch"
  /\ lastOp.kind = "started"
  /\ \E r \in 1..Len(requests) :
       /\ r # lastOp.request
       /\ requests[r].key = lastOp.key
       /\ requests[r].state = "pending"
       /\ requests[r].clearedSince
  /\ DOMAIN cache = {}
  /\ DOMAIN pendingRequests = {lastOp.key}

\* C6: no cache entry holds the result of a request that was in flight when
\* clearCache() was called.
C6_LateResultNotCached ==
  \A k \in DOMAIN cache :
    cache[k].data.value \in 1..Len(requests)
      => ~requests[cache[k].data.value].clearedSince

-----------------------------------------------------------------------------
(* Properties of matchPlayers, checked under SpecMatch *)

Matched(n) == matches[n].mlbPlayer # 0

MatchedRecord(n) == mlbPlayers[matches[n].mlbPlayer]

\* The ids already assigned when roster entry n was processed
UsedBefore(n) == { MatchedRecord(k).id : k \in {j \in 1..(n - 1) : Matched(j)} }

Unclaimed(n, i) == mlbPlayers[i].id \notin UsedBefore(n)

SameNormalizedName(n, i) ==
  NormalizedName(espnPlayers[n].fullName) = NormalizedName(mlbPlayers[i].fullName)

KnownTeamMismatch(n, i) ==
  LET espnTeam == normalizeTeam(espnPlayers[n].teamAbbrev)
      mlbTeam  == ExtractedTeamAbbrev(mlbPlayers[i].team)
  IN  espnTeam # "" /\ mlbTeam # "" /\ espnTeam # mlbTeam

HasTeamWarning(m) ==
  \E w \in 1..Len(m.warnings) : m.warnings[w].kind = "Team mismatch"

\* C7: within one matchPlayers call no two roster entries are matched to
\* records with the same id, whatever the roster and the candidate list,
\* candidate lists that repeat an id included.
C7_MatchInjective ==
  \A m, n \in 1..Len(matches) :
    (m # n /\ Matched(m) /\ Matched(n)) => MatchedRecord(m).id # MatchedRecord(n).id

\* C7 witness: the candidate list holds two records with the same id; the
\* first roster entry took one of them, and the second entry, whose normalized
\* name equals the other's, was not given it.
C7_Witness ==
  /\ Len(matches) = 2
  /\ \E i, j \in 1..Len(mlbPlayers) :
       /\ i # j
       /\ mlbPlayers[i].id = mlbPlayers[j].id
       /\ matches[1].mlbPlayer = i
       /\ SameNormalizedName(2, j)
       /\ ~Matched(2)

\* C8: every PlayerMatch has a confidence between 0 and 1 inclusive.
C8_ConfidenceInUnitInterval ==
  \A n \in 1..Len(matches) : matches[n].confidence \in 0..1000

\* C8 witness: a fuzzy match with every bonus (name similarity 1, team match,
\* position match), and in the same call an entry left unmatched or matched
\* under a known team mismatch.
C8_Witness ==
  /\ \E n \in 1..Len(matches) :
       /\ matches[n].matchReason.base = "Fuzzy name match"
       /\ matches[n].matchReason.pct = 100
       /\ matches[n].matchReason.team
       /\ matches[n].warnings = <<>>
  /\ \E n \in 1..Len(matches) : ~Matched(n) \/ HasTeamWarning(matches[n])

\* C9 as stated: whenever a roster entry and an unclaimed candidate have
\* identical normalized names and differing known team codes, the entry is
\* given that candidate, with confidence 0.7 and a team-mismatch warning,
\* whatever else is in the pool.
C9_MismatchCandidateAlwaysReturned ==
  \A n \in 1..Len(matches) : \A i \in 1..Len(mlbPlayers) :
    (Unclaimed(n, i) /\ SameNormalizedName(n, i) /\ KnownTeamMismatch(n, i))
      => /\ Matched(n)
         /\ MatchedRecord(n) = mlbPlayers[i]
         /\ matches[n].confidence = 700
         /\ HasTeamWarning(matches[n])

\* C9 amended: in that case the entry is matched with confidence at least 0.7:
\* to that candidate with confidence 0.7 and a team-mismatch warning, unless
\* another candidate scored above 0.7 or an earlier candidate of the list
\* scored 0.7 as well, and then to that other candidate.
C9_MismatchCandidateUnlessOutranked ==
  \A n \in 1..Len(matches) : \A i \in 1..Len(mlbPlayers) :
    (Unclaimed(n, i) /\ SameNormalizedName(n, i) /\ KnownTeamMismatch(n, i))
      => /\ Matched(n)
         /\ \/ /\ MatchedRecord(n) = mlbPlayers[i]
               /\ matches[n].confidence = 700
               /\ HasTeamWarning(matches[n])
            \/ /\ MatchedRecord(n) # mlbPlayers[i]
               /\ Unclaimed(n, matches[n].mlbPlayer)
               /\ matches[n].confidence > 700
            \/ /\ MatchedRecord(n) # mlbPlayers[i]
               /\ Unclaimed(n, matches[n].mlbPlayer)
               /\ matches[n].mlbPlayer < i
               /\ matches[n].confidence = 700
               /\ HasTeamWarning(matches[n])

\* C9 witness: the entry was given the mismatching candidate with confidence
\* 0.7 and the warning although another unclaimed candidate was in the pool.
C9_Witness ==
  \E n \in 1..Len(matches) : \E i, j \in 1..Len(mlbPlayers) :
    /\ Unclaimed(n, i) /\ SameNormalizedName(n, i) /\ KnownTeamMismatch(n, i)
    /\ Unclaimed(n, j) /\ mlbPlayers[j] # mlbPlayers[i]
    /\ matches[n].mlbPlayer = i
    /\ matches[n].confidence = 700
    /\ HasTeamWarning(matches[n])

-----------------------------------------------------------------------------
(* Properties of getWeeklyStats, checked under SpecWeekly *)

\* C10: on every day of the week a roster entry contributes to the totals
\* only if it is active and its lineup slot is one of STARTER_SLOT_IDS, and no
\* active entry in one of those slots is left out of the day's starters.
C10_OnlyStartingSlotsContribute ==
  \A d \in 1..Len(dayLog) :
    /\ \A i \in dayLog[d].used :
         /\ weekRosters[d][i].status = "ACTIVE"
         /\ weekRosters[d][i].lineupSlotId \in STARTER_SLOT_IDS
    /\ \A i \in 1..Len(weekRosters[d]) :
         (weekRosters[d][i].status = "ACTIVE"
            /\ weekRosters[d][i].lineupSlotId \in STARTER_SLOT_IDS)
           => i \in dayLog[d].starters

\* The getWeeklyStats call has returned the totals of the week.
WeekComputed == weeklyResult.note = "Computed using fuzzy matching"

\* The statistics of the records whose matches day entry e added to the
\* totals, in the order of the matches
ContributingStats(e) ==
  LET sel == SelectSeq([j \in 1..Len(e.matches) |-> j],
                       LAMBDA j : UsesMatch(e.matches[j]))
  IN  [k \in 1..Len(sel) |-> e.feed[e.matches[sel[k]].mlbPlayer].stats]

\* The contributing statistics of the days from n on
RECURSIVE ContributionsFrom(_)
ContributionsFrom(n) ==
  IF n > Len(dayLog) THEN <<>>
  ELSE ContributingStats(dayLog[n]) \o ContributionsFrom(n + 1)

WeekContributions == ContributionsFrom(1)

RECURSIVE SumSeq(_)
SumSeq(xs) == IF xs = <<>> THEN 0 ELSE Head(xs) + SumSeq(Tail(xs))

\* The components summed over every contributing match of the week
WeekAB == SumSeq([k \in 1..Len(WeekContributions) |-> WeekContributions[k].batting.atBats])

WeekH == SumSeq([k \in 1..Len(WeekContributions) |-> WeekContributions[k].batting.hits])

WeekER == SumSeq([k \in 1..Len(WeekContributions) |-> WeekContributions[k].pitching.earnedRuns])

WeekIP == SumSeq([k \in 1..Len(WeekContributions) |-> WeekContributions[k].pitching.inningsPitched])

WeekHBB ==
  SumSeq([k \in 1..Len(WeekContributions) |->
            WeekContributions[k].pitching.hits + WeekContributions[k].pitching.baseOnBalls])

\* The rate r is the quotient num / den, or 0 when den is 0.
RateIs(r, num, den) ==
  IF den = 0 THEN r.num = 0 ELSE r.num * den = num * r.den

\* C11: the weekly AVG, ERA and WHIP that getWeeklyStats returns are H/AB,
\* ER*9/IP and (H+BB)/IP of the components summed over every contributing
\* match of all the days of the week (innings are in tenths here), and they
\* are returned only when every day of the week has been accumulated.
C11_RatesFromSummedComponents ==
  WeekComputed =>
    /\ Len(dayLog) = MaxDays
    /\ RateIs(weeklyResult.teamStats[TeamId].battingAverage, WeekH, WeekAB)
    /\ RateIs(weeklyResult.teamStats[TeamId].era, WeekER * 9 * 10, WeekIP)
    /\ RateIs(weeklyResult.teamStats[TeamId].whip, WeekHBB * 10, WeekIP)

\* IP=5, ER=2 on one day and IP=4, ER=1 on the next: the weekly ERA is 3.00,
\* and the mean of the daily ERAs 3.6 and 2.25 would be 2.925.
C11_Witness ==
  /\ WeekComputed
  /\ Len(WeekContributions) = 2
  /\ WeekContributions[1].pitching = RoeFiveInnings.stats.pitching
  /\ WeekContributions[2].pitching = RoeFourInnings.stats.pitching
  /\ RateIs(weeklyResult.teamStats[TeamId].era, 3, 1)
  /\ ~RateIs(weeklyResult.teamStats[TeamId].era, 2925, 1000)

\* The getWeeklyStats call has returned from its catch block: the roster of
\* day dayIndex + 1 could not be fetched.
RosterFetchFailed == weeklyResult.note = "Error loading weekly statistics"

\* The strikeouts and the runs of every contributing match of the days that
\* were accumulated
WeekStrikeouts ==
  SumSeq([k \in 1..Len(WeekContributions) |-> WeekContributions[k].pitching.strikeOuts])

WeekRuns ==
  SumSeq([k \in 1..Len(WeekContributions) |-> WeekContributions[k].batting.runs])

\* C14: a day of the week whose roster or statistics cannot be fetched
\* contributes nothing, and the result getWeeklyStats returns still holds the
\* team's totals accumulated from the other days of the week.
C14_FailedDayDoesNotFailWeek ==
  /\ \A d \in 1..Len(dayLog) : ~dayLog[d].fetched => dayLog[d].used = {}
  /\ (WeekComputed \/ RosterFetchFailed) =>
       /\ TeamId \in DOMAIN weeklyResult.teamStats
       /\ weeklyResult.teamStats[TeamId].strikeouts = WeekStrikeouts
       /\ weeklyResult.teamStats[TeamId].runs = WeekRuns

\* C17: getWeeklyStats adds the statistics of a match to the weekly totals
\* exactly when the confidence of the match is at least 0.7.
C17_WeeklyTotalsFromConfidence07 ==
  \A d \in 1..Len(dayLog) :
    \A j \in 1..Len(dayLog[d].matches) :
      UsesMatch(dayLog[d].matches[j]) <=> dayLog[d].matches[j].confidence >= 700

-----------------------------------------------------------------------------
(* Properties of MLBStatService, checked under SpecStats *)

\* Every appearance of the date
DayAppearances == AppearancesFrom(dayGames, 1)

\* The players that appear on the date
DayPlayerIds == {DayAppearances[k].id : k \in 1..Len(DayAppearances)}

Abs(x) == IF x < 0 THEN -x ELSE x

\* r is the integer nearest to num / den (0 when den is 0).
NearestTo(r, num, den) ==
  IF den = 0 THEN r = 0 ELSE 2 * Abs(r * den - num) <= den

\* The sum of the batting count f over the player's appearances of the date
DayBatting(id, f) ==
  SumSeq([k \in 1..Len(DayAppearances) |->
            IF DayAppearances[k].id = id THEN DayAppearances[k].batting[f] ELSE 0])

\* The sum of the pitching count f over the player's appearances of the date
DayPitching(id, f) ==
  SumSeq([k \in 1..Len(DayAppearances) |->
            IF DayAppearances[k].id = id THEN DayAppearances[k].pitching[f] ELSE 0])

\* The calls of getDailyStatsMap that fetched the schedule feed and returned
FetchedDailyStats ==
  { c \in 1..Len(statCalls) :
      /\ statCalls[c].fn = "getDailyStatsMap"
      /\ statCalls[c].pc = "done"
      /\ statCalls[c].path = "schedule" }

\* C12: the map getDailyStatsMap builds from the schedule feed has one entry
\* per player of the date, whose batting and pitching counts are the sums over
\* all of the player's appearances on the date (both games of a
\* double-header), and whose AVG, ERA and WHIP are derived from these sums
\* (AVG to three decimals, ERA and WHIP to two).
C12_DoubleHeaderSummed ==
  \A c \in FetchedDailyStats :
    /\ DOMAIN statCalls[c].result = DayPlayerIds
    /\ \A id \in DayPlayerIds :
         LET stat == statCalls[c].result[id]
         IN  /\ stat.hitting.AB = DayBatting(id, "atBats")
             /\ stat.hitting.H = DayBatting(id, "hits")
             /\ stat.hitting.R = DayBatting(id, "runs")
             /\ stat.hitting.HR = DayBatting(id, "homeRuns")
             /\ stat.hitting.RBI = DayBatting(id, "rbi")
             /\ stat.hitting.SB = DayBatting(id, "stolenBases")
             /\ NearestTo(stat.hitting.AVG, 1000 * DayBatting(id, "hits"),
                          DayBatting(id, "atBats"))
             /\ stat.pitching.IP = DayPitching(id, "inningsPitched")
             /\ stat.pitching.K = DayPitching(id, "strikeOuts")
             /\ stat.pitching.W = DayPitching(id, "wins")
             /\ stat.pitching.SV = DayPitching(id, "saves")
             /\ NearestTo(stat.pitching.ERA, 100 * 9 * 10 * DayPitching(id, "earnedRuns"),
                          DayPitching(id, "inningsPitched"))
             /\ NearestTo(stat.pitching.WHIP,
                          100 * 10 * (DayPitching(id, "hits") + DayPitching(id, "baseOnBalls")),
                          DayPitching(id, "inningsPitched"))

\* AB=3, H=1 in one game and AB=2, H=1 in a second game of the date: AB=5,
\* H=2 and AVG .400.
C12_Witness ==
  \E c \in FetchedDailyStats :
    /\ \E g, h \in 1..Len(dayGames) :
         /\ g # h
         /\ dayGames[g].home = <<JoseGameOne>>
         /\ dayGames[h].home = <<JoseGameTwo>>
    /\ statCalls[c].result[1].hitting.AB = 5
    /\ statCalls[c].result[1].hitting.H = 2
    /\ statCalls[c].result[1].hitting.AVG = 400

\* The batting line of a player summed over the appearances of the date
SummedBatting(id) ==
  [present     |-> \E k \in 1..Len(DayAppearances) :
                     DayAppearances[k].id = id /\ DayAppearances[k].batting.present,
   atBats      |-> DayBatting(id, "atBats"),
   hits        |-> DayBatting(id, "hits"),
   runs        |-> DayBatting(id, "runs"),
   homeRuns    |-> DayBatting(id, "homeRuns"),
   rbi         |-> DayBatting(id, "rbi"),
   stolenBases |-> DayBatting(id, "stolenBases")]

\* The pitching line of a player summed over the appearances of the date
SummedPitching(id) ==
  [present        |-> \E k \in 1..Len(DayAppearances) :
                        DayAppearances[k].id = id /\ DayAppearances[k].pitching.present,
   inningsPitched |-> DayPitching(id, "inningsPitched"),
   earnedRuns     |-> DayPitching(id, "earnedRuns"),
   hits           |-> DayPitching(id, "hits"),
   baseOnBalls    |-> DayPitching(id, "baseOnBalls"),
   strikeOuts     |-> DayPitching(id, "strikeOuts"),
   wins           |-> DayPitching(id, "wins"),
   saves          |-> DayPitching(id, "saves")]

\* One record per player of the date, with the stats summed over the date
SummedPlayers ==
  { MLBStatPlayer(id,
                  (CHOOSE p \in {DayAppearances[k] : k \in 1..Len(DayAppearances)} :
                     p.id = id).fullName,
                  (CHOOSE p \in {DayAppearances[k] : k \in 1..Len(DayAppearances)} :
                     p.id = id).team,
                  SummedBatting(id), SummedPitching(id)) :
      id \in DayPlayerIds }

\* The calls of getMLBPlayersForDate that returned what one of the two paths
\* built with every upstream fetch of the path answered
FetchedPlayers(path) ==
  { c \in 1..Len(statCalls) :
      /\ statCalls[c].fn = "getMLBPlayersForDate"
      /\ statCalls[c].pc = "done"
      /\ statCalls[c].path = path }

\* C13: for the games of a date, getMLBPlayersForDate returns on the bulk
\* path and on the box-score path the same set of records: exactly one record
\* per player id, with the player's stats summed over the appearances of the
\* date.
C13_BulkAndBoxscoresAgree ==
  \A c \in FetchedPlayers("bulk") \cup FetchedPlayers("boxscores") :
    /\ {statCalls[c].result[k] : k \in 1..Len(statCalls[c].result)} = SummedPlayers
    /\ Len(statCalls[c].result) = Cardinality(DayPlayerIds)

\* C15: a call of getDailyStatsMap or getMLBPlayersForDate made for a date
\* while an earlier call of the same function for that date has not returned
\* starts no upstream fetch of its own, and returns what the earlier call
\* returns.
C15_ConcurrentCallsShareFetch ==
  \A c \in 1..Len(statCalls) :
    \A b \in statCalls[c].overlaps :
      /\ ~statCalls[c].fetched
      /\ (statCalls[c].pc = "done" /\ statCalls[b].pc = "done")
           => statCalls[c].result = statCalls[b].result

-----------------------------------------------------------------------------
(* Properties of makeRequest, checked under SpecRequest *)

\* What makeRequest throws when a fetch ended the way f did without being
\* retried
SurfacedAs(f) ==
  IF f = "not ok" THEN "ESPN API error"
  ELSE IF f = "ok non-JSON" THEN "ESPN API returned non-JSON body"
  ELSE f

\* C16: makeRequest makes a second fetch exactly when the first one ended in
\* an AbortError, and never a third: two aborted fetches end the call with
\* TIMEOUT. A fetch that fails in any other way (another error thrown, a
\* response that is not OK, a body that is not JSON) is the last fetch of the
\* call, and the call ends with that failure.
C16_RetryOnceOnTimeoutOnly ==
  \A i \in 1..Len(apiRequests) :
    LET q == apiRequests[i]
        n == Len(q.fetches)
    IN  /\ n <= 2
        /\ n = 2 => q.fetches[1] = "AbortError"
        /\ (n >= 1 /\ q.fetches[1] = "AbortError" /\ q.result # "pending") => n = 2
        /\ q.result = "TIMEOUT" <=> q.fetches = <<"AbortError", "AbortError">>
        /\ \A k \in 1..n :
             q.fetches[k] \in {"TypeError", "not ok", "ok non-JSON"} =>
               /\ k = n
               /\ q.result \in {"pending", SurfacedAs(q.fetches[k])}
               /\ q.fetches[k] = "TypeError" => q.result = "TypeError"

\* One call that timed out twice and one that failed otherwise at its first
\* fetch
C16_Witness ==
  \E i, j \in 1..Len(apiRequests) :
    /\ apiRequests[i].fetches = <<"AbortError", "AbortError">>
    /\ apiRequests[i].result = "TIMEOUT"
    /\ apiRequests[j].fetches = <<"not ok">>
    /\ apiRequests[j].result = "ESPN API error"

-----------------------------------------------------------------------------
(* Properties of getExpectedStats, checked under SpecEstimate *)

\* The weeks getWeeklyStats has been asked for
AskedWeeks == {historicalWeeks[k] : k \in 1..Len(weekAnswers)}

\* getExpectedStats has returned.
EstimateReturned == expectedStats # NoEstimate

\* C18: the estimate for a target week, for which the dashboard names no
\* weeks of its own choice, is made from the weeks immediately before the
\* target week, at most 4 of them: no week asked for is non-positive, the
\* target week or a later week, and for target week 1 no week is asked for.
C18_DefaultWeeksPrecedeTarget ==
  /\ \A w \in AskedWeeks : 0 < w /\ currentWeek - 4 <= w /\ w < currentWeek
  /\ EstimateReturned =>
       AskedWeeks = {w \in (currentWeek - 4)..(currentWeek - 1) : w > 0}

\* The values of statistic f in the answers that had data for the team, in
\* the order of the weeks
ValuesOf(f) ==
  LET had == SelectSeq(weekAnswers, LAMBDA a : a.kind = "data")
  IN  [k \in 1..Len(had) |-> StatOf(had[k].stats, f)]

Same(a, b) == a.num * b.den = b.num * a.den

\* x is the k-th smallest of the values vs.
KthSmallest(x, vs, k) ==
  /\ \E i \in 1..Len(vs) : Same(vs[i], x)
  /\ Cardinality({i \in 1..Len(vs) : Less(vs[i], x)}) <= k - 1
  /\ Cardinality({i \in 1..Len(vs) : ~Less(x, vs[i])}) >= k

\* m is the median of the values vs, of which there is at least one.
IsMedian(m, vs) ==
  IF Len(vs) % 2 = 1
    THEN KthSmallest(m, vs, (Len(vs) + 1) \div 2)
    ELSE \E i, j \in 1..Len(vs) :
           /\ KthSmallest(vs[i], vs, Len(vs) \div 2)
           /\ KthSmallest(vs[j], vs, (Len(vs) \div 2) + 1)
           /\ Same(m, HalfSum(vs[i], vs[j]))

\* C19: when at least one of the weeks asked for had data for the team, each
\* statistic of the estimate is the median of that statistic over exactly the
\* weeks that had data: the middle value of an odd number of weeks, the mean
\* of the two middle values of an even number.
C19_MedianOfWeeksWithData ==
  (EstimateReturned /\ \E k \in 1..Len(weekAnswers) : weekAnswers[k].kind = "data") =>
    \A f \in StatNames : IsMedian(expectedStats[f], ValuesOf(f))

\* Two weeks with data and different runs, whose median is the mean of the
\* two, and a week without data
C19_Witness ==
  /\ EstimateReturned
  /\ Len(ValuesOf("runs")) = 2
  /\ \E k \in 1..Len(weekAnswers) : weekAnswers[k].kind # "data"
  /\ ~Same(ValuesOf("runs")[1], ValuesOf("runs")[2])
  /\ Same(expectedStats["runs"], HalfSum(ValuesOf("runs")[1], ValuesOf("runs")[2]))

\* C20: when none of the weeks asked for had data for the team,
\* getExpectedStats returns the estimate whose statistics are all 0, and not
\* an error.
C20_NoDataGivesZeroEstimate ==
  (EstimateReturned /\ \A k \in 1..Len(weekAnswers) : weekAnswers[k].kind # "data") =>
    /\ expectedStats # EstimateError
    /\ \A f \in StatNames : Same(expectedStats[f], Number(0))

\* Prior weeks were given, none had data (one of them was rejected), and the
\* estimate is all 0.
C20_Witness ==
  /\ EstimateReturned
  /\ Len(weeks) >= 2
  /\ \A k \in 1..Len(weekAnswers) : weekAnswers[k].kind # "data"
  /\ \E k \in 1..Len(weekAnswers) : weekAnswers[k].kind = "rejected"
  /\ expectedStats = ZeroEstimate

-----------------------------------------------------------------------------
(* Properties of the accumulation in double arithmetic *)

\* C21: processing the days of a week in any permuted order yields the same
\* weekly totals and rates: the totals computed with the days taken in
\* another order equal those of the order the code takes.
C21_OrderIndependent ==
  \A i, j \in 1..Len(orderTotals) : orderTotals[i].stats = orderTotals[j].stats

-----------------------------------------------------------------------------
(* Properties of a second getWeeklyStats call *)

-----------------------------------------------------------------------------
(* Properties of the rates *)

\* The rates of the week returned are numbers: no fraction with denominator 0
WeekRatesDefined ==
  LET s == weeklyResult.teamStats[TeamId]
  IN  s.battingAverage.den # 0 /\ s.era.den # 0 /\ s.whip.den # 0

\* C23: AVG, ERA and WHIP evaluate to 0 whenever their denominator is 0 (0
\* at-bats or 0 innings pitched), in the daily aggregator and in the weekly
\* aggregation, and are never an undefined or infinite value.
C23_ZeroDenominatorGivesZero ==
  /\ WeekComputed =>
       /\ WeekRatesDefined
       /\ WeekAB = 0 => weeklyResult.teamStats[TeamId].battingAverage.num = 0
       /\ WeekIP = 0 => /\ weeklyResult.teamStats[TeamId].era.num = 0
                        /\ weeklyResult.teamStats[TeamId].whip.num = 0
  /\ \A c \in FetchedDailyStats :
       \A id \in DOMAIN statCalls[c].result :
         LET stat == statCalls[c].result[id]
         IN  /\ DayBatting(id, "atBats") = 0 => stat.hitting.AVG = 0
             /\ DayPitching(id, "inningsPitched") = 0 =>
                  stat.pitching.ERA = 0 /\ stat.pitching.WHIP = 0

\* A week whose only counted pitching line has an earned run, a hit and a walk
\* in 0.0 innings, and no at-bat: all three denominators are 0 and the
\* numerators of ERA and WHIP are not.
C23_Witness ==
  /\ WeekComputed
  /\ WeekAB = 0
  /\ WeekIP = 0
  /\ WeekER > 0
  /\ WeekHBB > 0

-----------------------------------------------------------------------------
(* Properties of demo mode, checked under SpecDemo *)

\* C24: with dev_mode set, no request goes to the fantasy platform or to the
\* statistics provider while the page loads and the dashboard is shown.
C24_DemoModeNoExternalCall ==
  storage.dev_mode => externalCalls = <<>>

-----------------------------------------------------------------------------
(* Properties of loadWeek, checked under SpecLoad *)

AllLoadsSettled == \A i \in 1..Len(weekLoads) : weekLoads[i].state # "pending"

\* C25: once every loadWeek call has settled, the statistics and the
\* estimate in the context are those of the selected week, in whatever order
\* the answers arrived.
C25_ContextBelongsToCurrentWeek ==
  (weekLoads # <<>> /\ AllLoadsSettled) =>
    /\ context.weeklyStats \in {0, StatsOfWeek(context.currentWeek)}
    /\ context.weeklyEstimate \in {0, EstimateOfWeek(context.currentWeek)}

-----------------------------------------------------------------------------
(* Properties of a settling request after clearCache, checked under SpecCache *)

\* A request whose starting call has not resumed yet and that no clearCache
\* has met
StartedAfterClear(r) == ~requests[r].completed /\ ~requests[r].clearedSince

\* C26: a settling request removes only its own in-flight marker: a request
\* started after the clear keeps its marker until it completes itself, and no
\* two producers started after the clear run at the same time for one key.
C26_SettlingRemovesOwnMarkerOnly ==
  /\ \A r \in 1..Len(requests) :
       StartedAfterClear(r) =>
         /\ requests[r].key \in DOMAIN pendingRequests
         /\ pendingRequests[requests[r].key].promise = r
  /\ \A r1, r2 \in 1..Len(requests) :
       (/\ r1 # r2
        /\ requests[r1].key = requests[r2].key
        /\ StartedAfterClear(r1) /\ requests[r1].state = "pending"
        /\ StartedAfterClear(r2) /\ requests[r2].state = "pending") => FALSE

-----------------------------------------------------------------------------
(* Properties of the box-score path and the matching, checked under SpecStats *)

\* The orders in which the box scores of all games of the date can settle
FullSettleOrders == { o \in SettleOrders(dayGames) : Len(o) = Len(dayGames) }

\* C27: when every box score of the date was fetched, the record matched to
\* each roster entry (and so the statistics added to the weekly totals) is
\* the same in whatever order the box scores settled, double-headers included.
C27_BoxscoreSettleOrderIrrelevant ==
  \A c \in 1..Len(statCalls) :
    (statCalls[c].pc = "done" /\ statCalls[c].path = "boxscores") =>
      \A order \in FullSettleOrders : \A table \in NameTables :
        MatchedRecords(BoxscoreDayRoster, statCalls[c].result, table, 1, {})
          = MatchedRecords(BoxscoreDayRoster, BoxscorePlayers(dayGames, order, 1),
                           table, 1, {})

-----------------------------------------------------------------------------
(* Properties of the confidence of a match, checked under SpecMatch *)

\* C28: a match with a record has confidence above 0.5 and a match without a
\* record has confidence 0, so the floor of getWeeklyStats (at least 0.5)
\* rejects no match that has a record.
C28_MatchConfidenceAboveFloor ==
  \A m \in 1..Len(matches) :
    /\ matches[m].mlbPlayer # 0 => matches[m].confidence > 500 /\ UsesMatch(matches[m])
    /\ matches[m].mlbPlayer = 0 => matches[m].confidence = 0

\* matchPlayers has returned a fuzzy match barely above the floor and a match
\* without a record.
C28_Witness ==
  /\ \E m \in 1..Len(matches) :
       /\ matches[m].mlbPlayer # 0
       /\ matches[m].matchReason.base = "Fuzzy name match"
       /\ matches[m].confidence <= 600
  /\ \E m \in 1..Len(matches) : matches[m].mlbPlayer = 0

-----------------------------------------------------------------------------
(* Properties of getPlayerWeeklyEstimate, checked under SpecPlayer *)

\* C29: the daily statistics are looked up only under an id of the
\* statistics provider that the resolver or the name search gave, never
\* under the platform's own id of the player.
C29_LookupsUnderProviderIdOnly ==
  \A r \in 1..Len(playerRuns) : \A d \in 1..Len(playerRuns[r].lookups) :
    /\ playerRuns[r].lookups[d].numbering = "provider"
    /\ playerRuns[r].lookups[d] = playerRuns[r].mlbId

-----------------------------------------------------------------------------
(* Properties of getCurrentWeek, checked under SpecCalendar *)

\* The weeks of the calendar whose seven days, Monday 00:00 up to the next
\* Monday 00:00, contain the instant
WeeksContaining(instant) ==
  LET weekMetaMap == buildWeekMetaMapFromMLB(mlbSchedule)
  IN  { weekMetaMap[n].matchupPeriodId : n \in
          { k \in 1..Len(weekMetaMap) :
              /\ weekMetaMap[k].startISO <= instant
              /\ instant < weekMetaMap[k].startISO + 7 * hoursPerDay } }

\* C30: for an instant inside a week of the calendar, getCurrentWeek returns
\* that week, on every instant of its Sunday too.
C30_CurrentWeekContainsNow ==
  (weekNow # 0 /\ WeeksContaining(today) # {}) => weekNow \in WeeksContaining(today)

=============================================================================
